---- MODULE Spec2Model ----
(***************************************************************************)
(* Server-side dispatch of tracking events to GA4, Meta and TikTok, as     *)
(* implemented by server.js, server.cjs and server-simple.cjs.             *)
(*                                                                         *)
(* JavaScript values are modelled as follows.  Opaque strings and numbers  *)
(* (event names, ids, credentials, addresses, messages) are TLA+ strings   *)
(* and integers, with the string undef standing for the JavaScript value   *)
(* undefined.  Structured values (PII text, arrays, response bodies) are   *)
(* records tagged by a field t, with Undefined standing for undefined.     *)
(***************************************************************************)
EXTENDS Integers, Sequences, FiniteSets, TLC

VARIABLES
    variant,     \* which server file is running: "js", "cjs" or "simple"
    env,         \* process.env: the two credentials of each destination
    served,      \* number of requests the server has taken so far
    offered,     \* number of requests the clients send in this run
    received,    \* per provider: POSTs it has received since the server started
    phase,       \* position of the current handler
    req,         \* the request being handled
    event,       \* the event handed to the adapters
    user,        \* the user object handed to the adapters
    pc,          \* per adapter: position of its async function
    calls,       \* per adapter: outbound HTTP POSTs issued in this dispatch
    sent,        \* per adapter: the JSON body of its POST
    resp,        \* per adapter: what the provider answered
    bodyRead,    \* per adapter: whether the response body was read
    promise,     \* per adapter: the promise the dispatch step waits on
    aggregated,  \* the result the dispatch step assembled
    response,    \* the HTTP response sent to the caller
    \* the tracking service in the browser
    service,       \* which service file is loaded: "pixel", "simple", "client"
    config,        \* this.config
    initialized,   \* this.initialized
    consentState,  \* this.consentState
    given,         \* per consent key: the latest value an updateConsent gave
    console,       \* the last message written with console.warn or .error
    pixelInits,    \* per platform: calls of its initialize function
    ids,           \* the event ids generated so far, in order
    tracked,       \* number of trackEvent calls made so far
    cpc,           \* position of the running trackEvent call
    cevent,        \* eventWithId of the last trackEvent call
    pixelEvent,    \* per platform: the pixel event the last call fired
    pixelCalls,    \* per platform: number of pixel events fired so far
    posted,        \* the body the last call posted to the server
    posts,         \* number of fetch calls to the server so far
    serverAnswer,  \* how the fetch of the last call ended
    outcome,       \* the promise the last trackEvent call returned
    userData,      \* this.userData
    pixelUser,     \* per pixel: the matching data it was last given
    resets,        \* number of reset calls made so far
    banner,        \* the consent banner: its React state and last operation
    storage        \* localStorage item 'tracking_consent'

serverVars == <<variant, env, served, offered, received, phase, req, event, user,
                pc, calls, sent, resp, bodyRead, promise, aggregated, response>>

clientVars == <<service, config, initialized, consentState, given, console,
                pixelInits, ids, tracked, cpc, cevent, pixelEvent,
                pixelCalls, posted, posts, serverAnswer, outcome, userData,
                pixelUser, resets,
                banner, storage>>

\* the variables of the tracking service, without the banner's
clientVarsOfService ==
    <<service, config, initialized, consentState, given, console, pixelInits,
      ids, tracked, cpc, cevent, pixelEvent, pixelCalls, posted, posts,
      serverAnswer, outcome, userData, pixelUser, resets>>

vars == <<serverVars, clientVars>>

-----------------------------------------------------------------------------
(* Bounds *)

MaxRequests == 1      \* requests handled in one run
MaxLen == 2           \* length of a raw e-mail or phone string
MaxRepeat == 2        \* dispatches of the same event in one run
MaxTracks == 2        \* trackEvent calls of the browser in one run
MaxResets == 1        \* reset calls of the browser in one run

-----------------------------------------------------------------------------
(* JavaScript values *)

undef == "undefined"
Undefined == [t |-> "undefined"]
Str(s) == [t |-> "string", s |-> s]
Arr(a) == [t |-> "array", a |-> a]
Num == [t |-> "number"]                 \* a number other than 0

\* JavaScript truthiness of an opaque string: undefined and "" are falsy.
Truthy(a) == a \notin {undef, ""}

\* a || b on opaque strings
Or(a, b) == IF Truthy(a) THEN a ELSE b

\* a && b on opaque strings
And(a, b) == IF Truthy(a) THEN b ELSE a

Dest == {"ga4", "meta", "tiktok"}
Variants == {"js", "cjs", "simple"}

-----------------------------------------------------------------------------
(* hashPII *)

LowerChar(c) ==
    CASE c = "A" -> "a"
      [] c = "B" -> "b"
      [] OTHER -> c

toLowerCase(s) == [i \in 1..Len(s) |-> LowerChar(s[i])]

IsSpace(c) == c = " "

RECURSIVE trimStart(_)
trimStart(s) ==
    IF s # <<>> /\ IsSpace(Head(s)) THEN trimStart(Tail(s)) ELSE s

RECURSIVE trimEnd(_)
trimEnd(s) ==
    IF s # <<>> /\ IsSpace(s[Len(s)]) THEN trimEnd(SubSeq(s, 1, Len(s) - 1)) ELSE s

trim(s) == trimEnd(trimStart(s))

\* crypto.createHash('sha256').update(x).digest('hex'): the digest is
\* modelled as a value that is a function of x alone and differs from
\* every raw string (collision freedom of SHA-256 is assumed).
sha256(x) == [t |-> "sha256", of |-> x]

\* JavaScript truthiness of a PII value: undefined and "" are falsy.
TruthyPII(value) == value # Undefined /\ value # Str(<<>>)

\* A plausible slip: the raw value is passed on when present.
hashPII_raw(value) ==
    IF ~TruthyPII(value) THEN Undefined ELSE value

\* A plausible slip: the value is lower-cased but not trimmed.
hashPII_noTrim(value) ==
    IF ~TruthyPII(value)
    THEN Undefined
    ELSE sha256(toLowerCase(value.s))

hashPII(value) ==
    IF ~TruthyPII(value)
    THEN Undefined
    ELSE sha256(trim(toLowerCase(value.s)))

-----------------------------------------------------------------------------
(* Payload construction *)

\* types/tracking.ts: the table shared with the browser pixels
EVENT_NAME_MAPPING(name) ==
    CASE name = "add_to_cart" ->
           [ga4 |-> "add_to_cart", meta |-> "AddToCart", tiktok |-> "AddToCart"]
      [] name = "begin_checkout" ->
           [ga4 |-> "begin_checkout", meta |-> "InitiateCheckout",
            tiktok |-> "InitiateCheckout"]
      [] name = "purchase" ->
           [ga4 |-> "purchase", meta |-> "Purchase", tiktok |-> "Purchase"]

eventNameMap_camel(name) ==
    CASE name = "add_to_cart" -> "AddToCart"
      [] name = "begin_checkout" -> "BeginCheckout"
      [] name = "purchase" -> "Purchase"
      [] OTHER -> undef

\* sendToMeta, sendToTikTok: const eventNameMap = {...}; eventNameMap[name]
eventNameMap(name) ==
    CASE name = "add_to_cart" -> "AddToCart"
      [] name = "begin_checkout" -> "InitiateCheckout"
      [] name = "purchase" -> "Purchase"
      [] OTHER -> undef

\* event.items.map(...) throws a TypeError unless items is an array.
ItemsThrow(ev) == ev.items.t # "array"

\* hashPII(value) throws a TypeError on a truthy value that is not a string:
\* value.toLowerCase is not a function.
PIIThrows(u) == u.email.t = "number" \/ u.phone.t = "number"

GA4Payload_noEventId(ev, u) ==
    [client_id |-> u.client_id,
     user_id |-> u.user_id,
     events |-> <<[name |-> ev.event_name,
                   params |-> [currency |-> ev.currency,
                               value |-> ev.value,
                               items |-> ev.items,
                               transaction_id |-> ev.transaction_id,
                               event_id |-> undef,
                               engagement_time_msec |-> 100]]>>]

GA4Payload(ev, u) ==
    [client_id |-> u.client_id,
     user_id |-> u.user_id,
     events |-> <<[name |-> ev.event_name,
                   params |-> [currency |-> ev.currency,
                               value |-> ev.value,
                               items |-> ev.items,
                               transaction_id |-> ev.transaction_id,
                               event_id |-> ev.event_id,
                               engagement_time_msec |-> 100]]>>]

MetaContents(items) ==
    [i \in 1..Len(items) |-> [id |-> items[i].id,
                              quantity |-> items[i].quantity,
                              item_price |-> items[i].price]]

MetaPayload(v, ev, u) ==
    [data |-> <<[
        event_name |-> IF v = "js"
                       THEN Or(eventNameMap(ev.event_name), ev.event_name)
                       ELSE eventNameMap(ev.event_name),
        event_time |-> "Date.now",
        event_id |-> ev.event_id,
        event_source_url |-> "https://example.com",
        action_source |-> "website",
        user_data |-> [
            em |-> hashPII(u.email),
            ph |-> hashPII(u.phone),
            client_ip_address |-> IF v = "js" THEN Or(u.ip_address, "127.0.0.1")
                                  ELSE u.ip_address,
            client_user_agent |-> IF v = "js" THEN Or(u.user_agent, "Mozilla/5.0")
                                  ELSE u.user_agent,
            fbc |-> u.fbc,
            fbp |-> u.fbp],
        custom_data |-> [
            currency |-> ev.currency,
            value |-> ev.value,
            contents |-> MetaContents(ev.items.a),
            content_type |-> "product"]]>>]

TikTokContents(items) ==
    [i \in 1..Len(items) |-> [content_id |-> items[i].id,
                              content_name |-> items[i].name,
                              content_category |-> items[i].category,
                              quantity |-> items[i].quantity,
                              price |-> items[i].price]]

\* payload.context.user is set only if (userData.email || userData.phone).
TikTokUser(u) ==
    IF TruthyPII(u.email) \/ TruthyPII(u.phone)
    THEN [t |-> "object",
          email |-> hashPII(u.email),
          phone_number |-> hashPII(u.phone),
          external_id |-> u.user_id]
    ELSE Undefined

TikTokPayload(v, ev, u, pixelCode) ==
    [pixel_code |-> pixelCode,
     event |-> IF v = "js"
               THEN Or(eventNameMap(ev.event_name), ev.event_name)
               ELSE eventNameMap(ev.event_name),
     event_id |-> ev.event_id,
     timestamp |-> "Date.now",
     context |-> [
        user_agent |-> IF v = "js" THEN Or(u.user_agent, "Mozilla/5.0")
                       ELSE u.user_agent,
        ip |-> IF v = "js" THEN Or(u.ip_address, "127.0.0.1") ELSE u.ip_address,
        page |-> [url |-> "https://example.com", referrer |-> ""],
        user |-> TikTokUser(u)],
     properties |-> [
        currency |-> ev.currency,
        value |-> ev.value,
        contents |-> TikTokContents(ev.items.a),
        content_type |-> "product"]]

-----------------------------------------------------------------------------
(* Result entries *)

\* One entry of a dispatch result.  A field holding undef (Undefined for
\* result) is absent from the JSON the caller receives.
Entry(success, error, reason, events_received, result) ==
    [success |-> success, error |-> error, reason |-> reason,
     events_received |-> events_received, result |-> result]

Success == Entry(TRUE, undef, undef, undef, Undefined)
Failure(error) == Entry(FALSE, error, undef, undef, Undefined)
Skipped(reason) == Entry(FALSE, undef, reason, undef, Undefined)

Pending == [state |-> "pending", value |-> Undefined, reason |-> undef]
Fulfilled(value) == [state |-> "fulfilled", value |-> value, reason |-> undef]
Rejected(reason) == [state |-> "rejected", value |-> Undefined, reason |-> reason]

-----------------------------------------------------------------------------
(* Provider responses *)

TextBody(text) == [t |-> "text", text |-> text]   \* a body that is not JSON
NullBody == [t |-> "null"]                        \* the JSON value null
ObjectBody(code, message, error, events_received) ==
    [t |-> "object", code |-> code, message |-> message, error |-> error,
     events_received |-> events_received]

NoResponse == [status |-> 0, body |-> Undefined, failed |-> FALSE]
NetworkError == [status |-> 0, body |-> Undefined, failed |-> TRUE]

Statuses == {200, 204, 400}

Bodies(d) ==
    CASE d = "ga4" -> {TextBody(""), TextBody("validation failed")}
      [] d = "meta" -> {TextBody("<html>"), NullBody,
                        ObjectBody(undef, undef, undef, "1"),
                        ObjectBody(undef, undef, "OAuthException", undef),
                        ObjectBody(undef, undef, undef, undef)}
      [] d = "tiktok" -> {TextBody("<html>"), NullBody,
                          ObjectBody("0", "OK", undef, undef),
                          ObjectBody("40001", "Invalid token", undef, undef),
                          ObjectBody("40001", undef, undef, undef),
                          ObjectBody(undef, undef, undef, undef)}

\* response.ok
ok(status) == status \in 200..299

\* `Status ${response.status}`
StatusMessage(status) ==
    CASE status = 200 -> "Status 200"
      [] status = 204 -> "Status 204"
      [] status = 400 -> "Status 400"
      [] OTHER -> "Status other"

\* response.text()
text(body) ==
    CASE body.t = "text" -> body.text
      [] body.t = "null" -> "null"
      [] OTHER -> "{...}"

-----------------------------------------------------------------------------
(* Adapters *)

\* A plausible slip: || for &&, so that one credential is taken for the pair.
HasCredentials_either(e, d) == Truthy(e[d].id) \/ Truthy(e[d].secret)

HasCredentials(e, d) == Truthy(e[d].id) /\ Truthy(e[d].secret)

MissingCredentials(d) ==
    CASE d = "ga4" -> Failure("Missing GA4 credentials")
      [] d = "meta" -> Failure("Missing Meta credentials")
      [] d = "tiktok" -> Failure("Missing TikTok credentials")

\* What the call of an adapter leaves behind when it first yields: the
\* adapter has returned (missing credentials), has thrown while building
\* its payload, or has issued its POST and awaits fetch.
Returned(entry) ==
    [pc |-> "done", calls |-> 0, sent |-> Undefined, promise |-> Fulfilled(entry)]
Threw(reason) ==
    [pc |-> "done", calls |-> 0, sent |-> Undefined, promise |-> Rejected(reason)]
Posted(payload) ==
    [pc |-> "fetch", calls |-> 1, sent |-> payload, promise |-> Pending]
NotCalled(entry) ==
    [pc |-> "skipped", calls |-> 0, sent |-> Undefined, promise |-> Fulfilled(entry)]

sendToGA4(v, e, ev, u) ==
    IF ~HasCredentials(e, "ga4") THEN Returned(MissingCredentials("ga4"))
    ELSE Posted(GA4Payload(ev, u))

\* A plausible slip: sendToMeta tests the credentials of GA4.
sendToMeta_ga4Credentials(v, e, ev, u) ==
    IF ~HasCredentials(e, "ga4") THEN Returned(MissingCredentials("meta"))
    ELSE IF PIIThrows(u) \/ ItemsThrow(ev) THEN Threw("TypeError")
    ELSE Posted(MetaPayload(v, ev, u))

sendToMeta(v, e, ev, u) ==
    IF ~HasCredentials(e, "meta") THEN Returned(MissingCredentials("meta"))
    ELSE IF PIIThrows(u) \/ ItemsThrow(ev) THEN Threw("TypeError")
    ELSE Posted(MetaPayload(v, ev, u))

sendToTikTok(v, e, ev, u) ==
    IF ~HasCredentials(e, "tiktok") THEN Returned(MissingCredentials("tiktok"))
    ELSE IF ItemsThrow(ev) \/ PIIThrows(u) THEN Threw("TypeError")
    ELSE Posted(TikTokPayload(v, ev, u, e["tiktok"].id))

send(d, v, e, ev, u) ==
    CASE d = "ga4" -> sendToGA4(v, e, ev, u)
      [] d = "meta" -> sendToMeta(v, e, ev, u)
      [] d = "tiktok" -> sendToTikTok(v, e, ev, u)

\* sendToGA4 after fetch resolved: the status alone decides; server.js
\* reads the body as text for the error of a status other than 204.
GA4NeedsBody(v, status) == v = "js" /\ status # 204

\* A plausible slip: response.ok in place of response.status === 204.
GA4Result_ok(v, status, body) ==
    IF ok(status) THEN Success
    ELSE IF v = "js" THEN Failure(text(body))
    ELSE Failure(StatusMessage(status))

GA4Result(v, status, body) ==
    IF status = 204 THEN Success
    ELSE IF v = "js" THEN Failure(text(body))
    ELSE Failure(StatusMessage(status))

\* sendToMeta after response.json() settled.
MetaResult(v, status, body) ==
    IF body.t = "text" THEN Failure("SyntaxError")
    ELSE IF ok(status)
         THEN IF v = "js" THEN Entry(TRUE, undef, undef, undef, body)
              ELSE IF body.t = "null" THEN Failure("TypeError")
              ELSE Entry(TRUE, undef, undef, body.events_received, Undefined)
    ELSE IF body.t = "null" THEN Failure("TypeError")
    ELSE Failure(body.error)

\* A plausible slip: the code of the body is not looked at.
TikTokResult_okOnly(v, status, body) ==
    IF body.t = "text" THEN Failure("SyntaxError")
    ELSE IF body.t = "null" THEN Failure("TypeError")
    ELSE IF ok(status)
         THEN IF v = "js" THEN Entry(TRUE, undef, undef, undef, body)
              ELSE Success
    ELSE Failure(body.message)

\* sendToTikTok after response.json() settled.
TikTokResult(v, status, body) ==
    IF body.t = "text" THEN Failure("SyntaxError")
    ELSE IF body.t = "null" THEN Failure("TypeError")
    ELSE IF ok(status) /\ body.code = "0"
         THEN IF v = "js" THEN Entry(TRUE, undef, undef, undef, body)
              ELSE Success
    ELSE Failure(body.message)

Result(d, v, status, body) ==
    CASE d = "ga4" -> GA4Result(v, status, body)
      [] d = "meta" -> MetaResult(v, status, body)
      [] d = "tiktok" -> TikTokResult(v, status, body)

\* the catch block of an adapter: { success: false, error: error.message }
Caught(message) == Failure(message)

-----------------------------------------------------------------------------
(* Requests *)

Item(id, name, category, price, quantity) ==
    [id |-> id, name |-> name, category |-> category, price |-> price,
     quantity |-> quantity]

Event(event_name, event_id, currency, value, items, transaction_id) ==
    [event_name |-> event_name, event_id |-> event_id, currency |-> currency,
     value |-> value, items |-> items, transaction_id |-> transaction_id]

User(client_id, user_id, email, phone, ip_address, user_agent) ==
    [client_id |-> client_id, user_id |-> user_id, email |-> email,
     phone |-> phone, ip_address |-> ip_address, user_agent |-> user_agent,
     fbc |-> undef, fbp |-> undef]

Consent(analytics_storage, ad_storage) ==
    [t |-> "object", analytics_storage |-> analytics_storage,
     ad_storage |-> ad_storage]

\* An HTTP request: the route, the fields of its JSON body (those a route
\* does not read are undefined) and the transport data of the connection.
Request(route, ev, items, orderId, u, consent, xff, remoteAddress, userAgent) ==
    [route |-> route, event |-> ev, items |-> items, orderId |-> orderId,
     user |-> u, consent |-> consent, xff |-> xff,
     remoteAddress |-> remoteAddress, userAgent |-> userAgent]

NoRequest == [route |-> "none"]

\* items.reduce((sum, item) => sum + (item.price * item.quantity), 0)
RECURSIVE reduceValue(_)
reduceValue(items) ==
    IF items = <<>> THEN 0
    ELSE Head(items).price * Head(items).quantity + reduceValue(Tail(items))

\* req.headers['x-forwarded-for'] || req.connection.remoteAddress || '127.0.0.1'
realIp(r) == Or(r.xff, Or(r.remoteAddress, "127.0.0.1"))

\* crypto.randomBytes(16).toString('hex')
EventIds == {"e1", "e2"}

-----------------------------------------------------------------------------
(* The dispatch step *)

\* Promise.race in place of Promise.allSettled: the first settled promise
\* resumes the handler.
AllSettled_race == \E d \in Dest : promise[d].state # "pending"

\* Promise.allSettled resolves when every promise has settled.
AllSettled == \A d \in Dest : promise[d].state # "pending"

\* One element of the array Promise.allSettled resolves to, turned into
\* the entry of the response.
SettledEntry(v, p) ==
    IF v = "js"
    THEN IF p.state = "fulfilled" THEN p.value ELSE Failure(p.reason)
    ELSE IF p.value # Undefined THEN p.value ELSE Failure(p.reason)

\* Promise.all in place of Promise.allSettled: the first rejection rejects
\* the whole dispatch and no result is assembled.
Aggregate_all(v, id, p) ==
    IF \E d \in Dest : p[d].state = "rejected" THEN Undefined
    ELSE IF v = "js"
    THEN [ga4 |-> SettledEntry(v, p["ga4"]),
          meta |-> SettledEntry(v, p["meta"]),
          tiktok |-> SettledEntry(v, p["tiktok"])]
    ELSE [event_id |-> id,
          ga4 |-> SettledEntry(v, p["ga4"]),
          meta |-> SettledEntry(v, p["meta"]),
          tiktok |-> SettledEntry(v, p["tiktok"])]

\* Destructuring in the wrong order: the Meta entry is read from the
\* result of the GA4 promise.
Aggregate_swapped(v, id, p) ==
    IF v = "js"
    THEN [ga4 |-> SettledEntry(v, p["ga4"]),
          meta |-> SettledEntry(v, p["ga4"]),
          tiktok |-> SettledEntry(v, p["tiktok"])]
    ELSE [event_id |-> id,
          ga4 |-> SettledEntry(v, p["ga4"]),
          meta |-> SettledEntry(v, p["ga4"]),
          tiktok |-> SettledEntry(v, p["tiktok"])]

Aggregate(v, id, p) ==
    IF v = "js"
    THEN [ga4 |-> SettledEntry(v, p["ga4"]),
          meta |-> SettledEntry(v, p["meta"]),
          tiktok |-> SettledEntry(v, p["tiktok"])]
    ELSE [event_id |-> id,
          ga4 |-> SettledEntry(v, p["ga4"]),
          meta |-> SettledEntry(v, p["meta"]),
          tiktok |-> SettledEntry(v, p["tiktok"])]

\* server.js: the consent purpose each destination needs
hasAnalyticsConsent(consent) ==
    consent # Undefined /\ consent.analytics_storage = "granted"
hasAdConsent(consent) ==
    consent # Undefined /\ consent.ad_storage = "granted"

\* A plausible slip: a purpose counts as granted unless it is 'denied', so
\* that a request without consent is sent everywhere.
Eligible_unlessDenied(d, consent) ==
    \/ consent = Undefined
    \/ IF d = "ga4" THEN consent.analytics_storage # "denied"
       ELSE consent.ad_storage # "denied"

Eligible(d, consent) ==
    IF d = "ga4" THEN hasAnalyticsConsent(consent) ELSE hasAdConsent(consent)

NoConsent(d) ==
    IF d = "ga4" THEN Skipped("No analytics consent") ELSE Skipped("No ad consent")

\* A plausible slip: the adapter is called whatever the consent.
Gated_ungated(d, v, e, ev, u, consent) == send(d, v, e, ev, u)

\* server.js builds the array of promises: an adapter call, or an already
\* resolved promise for a destination without consent.
Gated(d, v, e, ev, u, consent) ==
    IF Eligible(d, consent) THEN send(d, v, e, ev, u) ELSE NotCalled(NoConsent(d))

NoHttpResponse == [status |-> 0, body |-> Undefined]

\* A plausible slip: a destination that was already called is not called again.
Receive_once(rcv, started) ==
    [d \in Dest |-> IF rcv[d] > 0 THEN rcv[d] ELSE rcv[d] + started[d].calls]

\* Every POST an adapter issues with fetch arrives at its provider.
Receive(rcv, started) == [d \in Dest |-> rcv[d] + started[d].calls]

\* A plausible slip: each adapter is awaited before the next one is called,
\* so that at the first await only sendToGA4 has been called.
Dispatch_sequential(started, r, ev, u) ==
    /\ phase' = "dispatching"
    /\ received' = [received EXCEPT !["ga4"] = @ + started["ga4"].calls]
    /\ UNCHANGED clientVars
    /\ req' = r
    /\ event' = ev
    /\ user' = u
    /\ pc' = [d \in Dest |-> IF d = "ga4" THEN started[d].pc ELSE "idle"]
    /\ calls' = [d \in Dest |-> IF d = "ga4" THEN started[d].calls ELSE 0]
    /\ sent' = [d \in Dest |-> IF d = "ga4" THEN started[d].sent ELSE Undefined]
    /\ promise' = [d \in Dest |-> IF d = "ga4" THEN started[d].promise ELSE Pending]
    /\ resp' = [d \in Dest |-> NoResponse]
    /\ bodyRead' = [d \in Dest |-> FALSE]
    /\ aggregated' = Undefined
    /\ response' = NoHttpResponse

\* A plausible slip: an adapter fills in the default of a field in the user
\* object it was given, which is the object of the other adapters too.
Dispatch_sharedUser(started, r, ev, u) ==
    /\ phase' = "dispatching"
    /\ received' = Receive(received, started)
    /\ UNCHANGED clientVars
    /\ req' = r
    /\ event' = ev
    /\ user' = [u EXCEPT !.user_agent = Or(u.user_agent, "Mozilla/5.0")]
    /\ pc' = [d \in Dest |-> started[d].pc]
    /\ calls' = [d \in Dest |-> started[d].calls]
    /\ sent' = [d \in Dest |-> started[d].sent]
    /\ promise' = [d \in Dest |-> started[d].promise]
    /\ resp' = [d \in Dest |-> NoResponse]
    /\ bodyRead' = [d \in Dest |-> FALSE]
    /\ aggregated' = Undefined
    /\ response' = NoHttpResponse

\* The adapters have been called and the handler awaits Promise.allSettled.
Dispatch(started, r, ev, u) ==
    /\ phase' = "dispatching"
    /\ received' = Receive(received, started)
    /\ UNCHANGED clientVars
    /\ req' = r
    /\ event' = ev
    /\ user' = u
    /\ pc' = [d \in Dest |-> started[d].pc]
    /\ calls' = [d \in Dest |-> started[d].calls]
    /\ sent' = [d \in Dest |-> started[d].sent]
    /\ promise' = [d \in Dest |-> started[d].promise]
    /\ resp' = [d \in Dest |-> NoResponse]
    /\ bodyRead' = [d \in Dest |-> FALSE]
    /\ aggregated' = Undefined
    /\ response' = NoHttpResponse

\* The handler ended before the dispatch step: it answered (status > 0) or
\* it threw and the request gets no answer from it.
NoDispatch(r, ph, answer) ==
    /\ phase' = ph
    /\ received' = received
    /\ UNCHANGED clientVars
    /\ req' = r
    /\ event' = Undefined
    /\ user' = Undefined
    /\ pc' = [d \in Dest |-> "idle"]
    /\ calls' = [d \in Dest |-> 0]
    /\ sent' = [d \in Dest |-> Undefined]
    /\ promise' = [d \in Dest |-> Pending]
    /\ resp' = [d \in Dest |-> NoResponse]
    /\ bodyRead' = [d \in Dest |-> FALSE]
    /\ aggregated' = Undefined
    /\ response' = answer

CanTake == phase # "dispatching" /\ served < offered

-----------------------------------------------------------------------------
(* Handlers *)

\* server.js: app.post('/api/track').  event.items.length throws when items
\* is undefined; a string has a length.
TrackJs(r) ==
    /\ variant = "js" /\ r.route = "track" /\ CanTake
    /\ served' = served + 1
    /\ UNCHANGED <<variant, env, offered>>
    /\ LET u == [r.user EXCEPT !.ip_address = realIp(r)]
       IN IF r.event.items = Undefined
          THEN NoDispatch(r, "threw", NoHttpResponse)   \* event.items.length
          ELSE Dispatch([d \in Dest |->
                            Gated(d, variant, env, r.event, u, r.consent)],
                        r, r.event, u)

\* A plausible slip: the list of server.cjs also lets the business events in.
allowedEvents_all == {"page_view", "add_to_cart", "begin_checkout", "purchase"}

\* server.cjs: app.post('/api/track')
allowedEvents == {"page_view", "add_to_cart"}

\* A plausible slip: server.cjs with the consent gate of server.js.
TrackCjs_gated(r) ==
    /\ variant = "cjs" /\ r.route = "track" /\ CanTake
    /\ served' = served + 1
    /\ UNCHANGED <<variant, env, offered>>
    /\ LET u == [r.user EXCEPT !.ip_address = realIp(r)]
       IN IF r.event.event_name \notin allowedEvents
          THEN NoDispatch(r, "done",
                          [status |-> 400, body |-> [error |-> "not allowed"]])
          ELSE Dispatch([d \in Dest |->
                            Gated(d, variant, env, r.event, u, r.consent)],
                        r, r.event, u)

TrackCjs(r) ==
    /\ variant = "cjs" /\ r.route = "track" /\ CanTake
    /\ served' = served + 1
    /\ UNCHANGED <<variant, env, offered>>
    /\ LET u == [r.user EXCEPT !.ip_address = realIp(r)]
       IN IF r.event.event_name \notin allowedEvents
          THEN NoDispatch(r, "done",
                          [status |-> 400, body |-> [error |-> "not allowed"]])
          ELSE Dispatch([d \in Dest |-> send(d, variant, env, r.event, u)],
                        r, r.event, u)

\* server-simple.cjs: app.post('/api/track')
TrackSimple(r) ==
    /\ variant = "simple" /\ r.route = "track" /\ CanTake
    /\ served' = served + 1
    /\ UNCHANGED <<variant, env, offered>>
    /\ LET u == [r.user EXCEPT !.ip_address = realIp(r)]
       IN Dispatch([d \in Dest |-> send(d, variant, env, r.event, u)],
                   r, r.event, u)

\* A plausible slip: the adapters are awaited without Promise.allSettled, so
\* that an adapter that throws makes trackServerEvent, and the route, throw.
trackServerEvent_unsettled(r, ev) ==
    LET enrichedUser == [r.user EXCEPT !.ip_address = realIp(r),
                                       !.user_agent = Or(r.userAgent, "Unknown")]
        started == [d \in Dest |-> send(d, variant, env, ev, enrichedUser)]
    IN IF \E d \in Dest : started[d].promise.state = "rejected"
       THEN NoDispatch(r, "threw", NoHttpResponse)
       ELSE Dispatch(started, r, ev, enrichedUser)

\* server.cjs: trackServerEvent up to its await
trackServerEvent(r, ev) ==
    LET enrichedUser == [r.user EXCEPT !.ip_address = realIp(r),
                                       !.user_agent = Or(r.userAgent, "Unknown")]
    IN Dispatch([d \in Dest |-> send(d, variant, env, ev, enrichedUser)],
                r, ev, enrichedUser)

\* server.cjs: app.post('/api/checkout')
Checkout(r) ==
    /\ variant = "cjs" /\ r.route = "checkout" /\ CanTake
    /\ served' = served + 1
    /\ UNCHANGED <<variant, env, offered>>
    /\ IF r.items.t # "array"
       THEN NoDispatch(r, "threw", NoHttpResponse)      \* items.reduce
       ELSE \E id \in EventIds :
              trackServerEvent(r, Event("begin_checkout", id, "PHP",
                                        reduceValue(r.items.a), r.items, undef))

\* server.cjs: app.post('/api/purchase/complete')
PurchaseComplete(r) ==
    /\ variant = "cjs" /\ r.route = "purchase" /\ CanTake
    /\ served' = served + 1
    /\ UNCHANGED <<variant, env, offered>>
    /\ IF r.items.t # "array"
       THEN NoDispatch(r, "threw", NoHttpResponse)      \* items.reduce
       ELSE \E id \in EventIds :
              trackServerEvent(r, Event("purchase", id, "PHP",
                                        reduceValue(r.items.a), r.items, r.orderId))

\* A plausible slip: the test of the start-up log, which looks at the id
\* alone.
HealthAnswer_idOnly(e) ==
    [status |-> 200,
     body |-> [status |-> "ok",
               credentials |-> [d \in Dest |-> Truthy(e[d].id)]]]

\* res.json({ status: 'ok', credentials: { ga4: !!(id && secret), ... } })
HealthAnswer(e) ==
    [status |-> 200,
     body |-> [status |-> "ok",
               credentials |-> [d \in Dest |->
                                   Truthy(And(e[d].id, e[d].secret))]]]

\* app.get('/health'), the same in the three servers
Health(r) ==
    /\ r.route = "health" /\ CanTake
    /\ served' = served + 1
    /\ UNCHANGED <<variant, env, offered>>
    /\ NoDispatch(r, "done", HealthAnswer(env))

-----------------------------------------------------------------------------
(* Steps of an adapter after its POST *)

Settle(d, entry) ==
    /\ pc' = [pc EXCEPT ![d] = "done"]
    /\ promise' = [promise EXCEPT ![d] = Fulfilled(entry)]

\* A plausible slip: the catch block issues the POST again, up to three times.
FetchRejects_retry(d) ==
    /\ phase = "dispatching" /\ pc[d] = "fetch"
    /\ resp' = [resp EXCEPT ![d] = NetworkError]
    /\ IF calls[d] < 3
       THEN /\ calls' = [calls EXCEPT ![d] = @ + 1]
            /\ received' = [received EXCEPT ![d] = @ + 1]
            /\ UNCHANGED <<pc, promise>>
       ELSE /\ Settle(d, Caught("fetch failed"))
            /\ UNCHANGED <<calls, received>>
    /\ UNCHANGED <<variant, env, served, offered, phase, req, event, user, sent,
                   bodyRead, aggregated, response>>
    /\ UNCHANGED clientVars

\* fetch rejects (network error, timeout): the catch block returns a failure.
FetchRejects(d) ==
    /\ phase = "dispatching" /\ pc[d] = "fetch"
    /\ resp' = [resp EXCEPT ![d] = NetworkError]
    /\ Settle(d, Caught("fetch failed"))
    /\ UNCHANGED <<variant, env, served, offered, received, phase, req, event,
                   user, calls, sent, bodyRead, aggregated, response>>
    /\ UNCHANGED clientVars

\* fetch resolves with a response of some status.  sendToGA4 decides on the
\* status at once, unless server.js has to read the error text; the other
\* adapters go on to await response.json().
FetchResolves(d) ==
    /\ phase = "dispatching" /\ pc[d] = "fetch"
    /\ \E status \in Statuses :
         /\ resp' = [resp EXCEPT ![d] = [status |-> status, body |-> Undefined,
                                         failed |-> FALSE]]
         /\ IF d = "ga4" /\ ~GA4NeedsBody(variant, status)
            THEN Settle(d, GA4Result(variant, status, Undefined))
            ELSE /\ pc' = [pc EXCEPT ![d] = "body"]
                 /\ UNCHANGED promise
    /\ UNCHANGED <<variant, env, served, offered, received, phase, req, event,
                   user, calls, sent, bodyRead, aggregated, response>>
    /\ UNCHANGED clientVars

\* response.json() (response.text() in sendToGA4 of server.js) settles.
BodySettles(d) ==
    /\ phase = "dispatching" /\ pc[d] = "body"
    /\ \E body \in Bodies(d) :
         /\ resp' = [resp EXCEPT ![d].body = body]
         /\ Settle(d, Result(d, variant, resp[d].status, body))
    /\ bodyRead' = [bodyRead EXCEPT ![d] = TRUE]
    /\ UNCHANGED <<variant, env, served, offered, received, phase, req, event,
                   user, calls, sent, aggregated, response>>
    /\ UNCHANGED clientVars

\* Promise.allSettled resolved: /api/track answers with the aggregated result.
RespondTrack ==
    /\ phase = "dispatching" /\ req.route = "track" /\ AllSettled
    /\ aggregated' = Aggregate(variant, event.event_id, promise)
    /\ response' = [status |-> 200, body |-> aggregated']
    /\ phase' = "done"
    /\ UNCHANGED <<variant, env, served, offered, received, req, event, user,
                   pc, calls, sent, resp, bodyRead, promise>>
    /\ UNCHANGED clientVars

\* Promise.allSettled resolved: trackServerEvent returns the aggregated
\* result and the business route answers with its own confirmation.
RespondRoute ==
    /\ phase = "dispatching" /\ req.route \in {"checkout", "purchase"} /\ AllSettled
    /\ aggregated' = Aggregate(variant, event.event_id, promise)
    /\ response' = [status |-> 200,
                    body |-> IF req.route = "checkout"
                             THEN [message |-> "Checkout session created"]
                             ELSE [message |-> "Thank you for your purchase!"]]
    /\ phase' = "done"
    /\ UNCHANGED <<variant, env, served, offered, received, req, event, user,
                   pc, calls, sent, resp, bodyRead, promise>>
    /\ UNCHANGED clientVars

-----------------------------------------------------------------------------
(* The tracking service in the browser.  Three versions of it exist:       *)
(* tracking-service.ts, which fires the pixels by consent and posts to the *)
(* server ("pixel"); the simplified service without consent ("simple");    *)
(* and tracking-service-client.ts, which keeps the consent state and only  *)
(* posts to the server ("client").                                         *)

Services == {"pixel", "simple", "client"}

ConsentKeys ==
    {"ad_storage", "analytics_storage", "ad_user_data", "ad_personalization"}

\* private consentState: ConsentState = { ad_storage: 'denied', ... }
DefaultConsent == [k \in ConsentKeys |-> "denied"]

\* config = null; this.config?.x is undefined
NoConfig ==
    [t |-> "null", ga4 |-> undef, meta |-> undef, tiktok |-> undef,
     serverEndpoint |-> undef]

\* TrackingServiceConfig: the id of each pixel (or undefined) and the endpoint
Config(ga4, meta, tiktok, serverEndpoint) ==
    [t |-> "object", ga4 |-> ga4, meta |-> meta, tiktok |-> tiktok,
     serverEndpoint |-> serverEndpoint]

\* A plausible slip: the new values replace the whole state.
mergeConsent_replace(state, consent) ==
    [k \in ConsentKeys |->
        IF k \in DOMAIN consent THEN consent[k] ELSE DefaultConsent[k]]

\* { ...this.consentState, ...consent }
mergeConsent(state, consent) ==
    [k \in ConsentKeys |-> IF k \in DOMAIN consent THEN consent[k] ELSE state[k]]

\* `${Date.now()}-${Math.random().toString(36).substring(2, 9)}`
generateEventId(time, random) == [t |-> "id", time |-> time, random |-> random]

\* gtag('event', event_name, { event_id, timestamp, ...params })
sendTrackingEvent(ev) ==
    [fn |-> "gtag", name |-> ev.event_name,
     params |-> [event_id |-> ev.event_id, currency |-> ev.currency,
                 value |-> ev.value, items |-> ev.items,
                 transaction_id |-> ev.transaction_id]]

convertToMetaEvent(ev) ==
    [name |-> eventNameMap(ev.event_name),
     params |-> [contents |-> MetaContents(ev.items.a),
                 content_type |-> "product",
                 currency |-> ev.currency,
                 value |-> ev.value,
                 event_id |-> ev.event_id,
                 order_id |-> IF ev.event_name = "purchase"
                              THEN ev.transaction_id ELSE undef]]

\* window.fbq('track', eventName, params, { eventID: event.event_id })
sendMetaPixelEvent(ev) ==
    [fn |-> "fbq", name |-> convertToMetaEvent(ev).name,
     params |-> convertToMetaEvent(ev).params,
     options |-> [eventID |-> ev.event_id]]

\* A plausible slip: the TikTok parameters get an id of their own.
convertToTikTokEvent_ownId(ev) ==
    [name |-> eventNameMap(ev.event_name),
     params |-> [contents |-> TikTokContents(ev.items.a),
                 content_type |-> "product",
                 currency |-> ev.currency,
                 value |-> ev.value,
                 event_id |-> generateEventId(0, "tt"),
                 order_id |-> IF ev.event_name = "purchase"
                              THEN ev.transaction_id ELSE undef]]

convertToTikTokEvent(ev) ==
    [name |-> eventNameMap(ev.event_name),
     params |-> [contents |-> TikTokContents(ev.items.a),
                 content_type |-> "product",
                 currency |-> ev.currency,
                 value |-> ev.value,
                 event_id |-> ev.event_id,
                 order_id |-> IF ev.event_name = "purchase"
                              THEN ev.transaction_id ELSE undef]]

\* window.ttq.track(eventName, params)
sendTikTokPixelEvent(ev) ==
    [fn |-> "ttq.track", name |-> convertToTikTokEvent(ev).name,
     params |-> convertToTikTokEvent(ev).params]

sendPixelEvent(d, ev) ==
    CASE d = "ga4" -> sendTrackingEvent(ev)
      [] d = "meta" -> sendMetaPixelEvent(ev)
      [] d = "tiktok" -> sendTikTokPixelEvent(ev)

\* A plausible slip: the pixels are fired whatever the consent state is.
PixelConsent_ignored(d, consent) == TRUE

\* hasAnalyticsConsent for GA4, hasAdConsent for Meta and TikTok
PixelConsent(d, consent) ==
    IF d = "ga4" THEN consent["analytics_storage"] = "granted"
    ELSE consent["ad_storage"] = "granted"

\* tracking-service.ts: if (this.config?.ga4 && hasAnalyticsConsent) ...
\* The other two services fire no pixel event.
FiresPixel(svc, d, cfg, consent) ==
    svc = "pixel" /\ Truthy(cfg[d]) /\ PixelConsent(d, consent)

\* the body trackEvent posts to the server
ServerPayload(svc, ev, consent) ==
    [event |-> ev, consent |-> IF svc = "client" THEN consent ELSE Undefined]

\* private userData: Partial<UserData> = {}
NoUserData == [client_id |-> undef, email |-> undef, user_id |-> undef]

\* { ...this.userData, ...userData }: the keys that are given override
mergeUserData(state, ud) ==
    [k \in DOMAIN state |-> IF ud[k] # undef THEN ud[k] ELSE state[k]]

\* getClientId(): the id kept in localStorage under 'ga_client_id'
getClientId == "1000.k3j9x1a"

\* localStorage.getItem gives null for a key that was never set
NoItem == [t |-> "null"]

\* the consent banner before it is mounted
Unmounted ==
    [mounted |-> FALSE, isVisible |-> FALSE, showDetails |-> FALSE,
     customConsent |-> DefaultConsent, last |-> "none"]

\* The state of a freshly constructed service, one of svcs.
ClientStart(svcs) ==
    /\ service \in svcs
    /\ config = NoConfig
    /\ initialized = FALSE
    /\ consentState = DefaultConsent
    /\ given = [k \in ConsentKeys |-> "none"]
    /\ console = "none"
    /\ pixelInits = [d \in Dest |-> 0]
    /\ ids = <<>>
    /\ tracked = 0
    /\ cpc = "idle"
    /\ cevent = Undefined
    /\ pixelEvent = [d \in Dest |-> Undefined]
    /\ pixelCalls = [d \in Dest |-> 0]
    /\ posted = Undefined
    /\ posts = 0
    /\ serverAnswer = "none"
    /\ outcome = "none"
    /\ userData = NoUserData
    /\ pixelUser = [d \in {"meta", "tiktok"} |-> Undefined]
    /\ resets = 0
    /\ banner = Unmounted
    /\ storage = NoItem

\* A plausible slip: initialize without the test of this.initialized.
initialize_again(cfg) ==
    /\ \A d \in Dest : pixelInits[d] < 3
    /\ IF service # "pixel" /\ ~Truthy(cfg.serverEndpoint)
       THEN /\ console' = "Server endpoint is required for tracking"
            /\ UNCHANGED <<config, initialized, pixelInits>>
       ELSE /\ config' = cfg
            /\ pixelInits' = [d \in Dest |->
                                pixelInits[d] + IF Truthy(cfg[d]) THEN 1 ELSE 0]
            /\ initialized' = TRUE
            /\ UNCHANGED console
    /\ UNCHANGED <<service, consentState, given, ids, tracked, cpc, cevent,
                   pixelEvent, pixelCalls, posted, posts, serverAnswer, outcome,
                   userData, pixelUser, resets,
                   banner, storage>>
    /\ UNCHANGED serverVars

\* initialize(config).  Only the simplified service and the client service
\* require a server endpoint.
initialize(cfg) ==
    /\ IF initialized
       THEN /\ console' = "TrackingService already initialized"
            /\ UNCHANGED <<config, initialized, pixelInits>>
       ELSE IF service # "pixel" /\ ~Truthy(cfg.serverEndpoint)
       THEN /\ console' = "Server endpoint is required for tracking"
            /\ UNCHANGED <<config, initialized, pixelInits>>
       ELSE /\ config' = cfg
            /\ pixelInits' = [d \in Dest |->
                                pixelInits[d] + IF Truthy(cfg[d]) THEN 1 ELSE 0]
            /\ initialized' = TRUE
            /\ UNCHANGED console
    /\ UNCHANGED <<service, consentState, given, ids, tracked, cpc, cevent,
                   pixelEvent, pixelCalls, posted, posts, serverAnswer, outcome,
                   userData, pixelUser, resets,
                   banner, storage>>
    /\ UNCHANGED serverVars

\* updateConsent(consent); the simplified service has no such method.
\* Its effect on the service is ConsentUpdated.
ConsentUpdated(consent) ==
    /\ service # "simple"
    /\ consentState' = mergeConsent(consentState, consent)
    /\ given' = [k \in ConsentKeys |->
                    IF k \in DOMAIN consent THEN consent[k] ELSE given[k]]
    /\ UNCHANGED <<service, config, initialized, console, pixelInits, ids,
                   tracked, cpc, cevent, pixelEvent, pixelCalls, posted, posts,
                   serverAnswer, outcome, userData, pixelUser, resets>>
    /\ UNCHANGED serverVars

updateConsent(consent) ==
    /\ ConsentUpdated(consent)
    /\ UNCHANGED <<banner, storage>>

\* setUserData(userData).  tracking-service.ts also hands e-mail and user id
\* to the Meta and TikTok pixels that are loaded; the simplified service and
\* the client service only keep the data for the server payload.
setUserData(ud) ==
    /\ LET merged == mergeUserData(userData, ud)
       IN userData' = [merged EXCEPT !.client_id = Or(@, getClientId)]
    /\ pixelUser' =
         IF service # "pixel" THEN pixelUser
         ELSE [d \in {"meta", "tiktok"} |->
                 IF d = "meta" /\ Truthy(ud.email) /\ pixelInits[d] > 0
                 THEN [email |-> ud.email]
                 ELSE IF d = "tiktok" /\ (Truthy(ud.email) \/ Truthy(ud.user_id))
                         /\ pixelInits[d] > 0
                 THEN [email |-> ud.email, external_id |-> ud.user_id]
                 ELSE pixelUser[d]]
    /\ UNCHANGED <<service, config, initialized, consentState, given, console,
                   pixelInits, ids, tracked, cpc, cevent, pixelEvent, pixelCalls,
                   posted, posts, serverAnswer, outcome, resets,
                   banner, storage>>
    /\ UNCHANGED serverVars

\* A plausible slip: reset() forgets the consent state.
reset_keepsConsent ==
    /\ service # "simple" /\ resets < MaxResets
    /\ resets' = resets + 1
    /\ config' = NoConfig
    /\ initialized' = FALSE
    /\ userData' = NoUserData
    /\ UNCHANGED <<service, consentState, given, console, pixelInits, ids, tracked,
                   cpc, cevent, pixelEvent, pixelCalls, posted, posts,
                   serverAnswer, outcome, pixelUser,
                   banner, storage>>
    /\ UNCHANGED serverVars

\* reset(), of tracking-service.ts and of the client service
reset ==
    /\ service # "simple" /\ resets < MaxResets
    /\ resets' = resets + 1
    /\ config' = NoConfig
    /\ initialized' = FALSE
    /\ consentState' = DefaultConsent
    /\ given' = [k \in ConsentKeys |-> "none"]
    /\ userData' = NoUserData
    /\ UNCHANGED <<service, console, pixelInits, ids, tracked, cpc, cevent,
                   pixelEvent, pixelCalls, posted, posts, serverAnswer, outcome,
                   pixelUser,
                   banner, storage>>
    /\ UNCHANGED serverVars

\* JSON.stringify of a consent object: its members in insertion order, which
\* is the order of the literals of ConsentBanner.tsx; toggleConsent keeps it.
KeyOrder == <<"ad_storage", "analytics_storage", "ad_user_data", "ad_personalization">>

stringify(c) ==
    Str([i \in 1..Len(KeyOrder) |-> <<KeyOrder[i], c[KeyOrder[i]]>>])

\* JSON.parse of such a text: for a repeated name the last member counts
parse(item) ==
    LET m == item.s
        last(k) == CHOOSE i \in DOMAIN m :
                      m[i][1] = k /\ \A j \in DOMAIN m : m[j][1] = k => j <= i
    IN [k \in {m[i][1] : i \in DOMAIN m} |-> m[last(k)][2]]

\* The banner is mounted: useState's initial values, then the effect that
\* reads the stored consent.
Mount ==
    /\ ~banner.mounted
    /\ banner' = [mounted |-> TRUE, isVisible |-> storage = NoItem,
                  showDetails |-> FALSE, customConsent |-> DefaultConsent,
                  last |-> "mount"]
    /\ IF storage = NoItem
       THEN UNCHANGED <<clientVarsOfService, serverVars>>
       ELSE ConsentUpdated(parse(storage))
    /\ UNCHANGED storage

Unmount ==
    /\ banner.mounted
    /\ banner' = [Unmounted EXCEPT !.last = "unmount"]
    /\ UNCHANGED <<clientVarsOfService, serverVars, storage>>

\* The user clears the site's data.
ClearStorage ==
    /\ storage # NoItem
    /\ storage' = NoItem
    /\ UNCHANGED <<clientVarsOfService, serverVars, banner>>

\* handleAcceptAll: acceptAllTracking() of the hook, then the literal is stored
handleAcceptAll ==
    /\ banner.mounted /\ banner.isVisible
    /\ ConsentUpdated([ad_storage |-> "granted", analytics_storage |-> "granted",
                       ad_user_data |-> "granted",
                       ad_personalization |-> "granted"])
    /\ storage' = stringify([ad_storage |-> "granted",
                             analytics_storage |-> "granted",
                             ad_user_data |-> "granted",
                             ad_personalization |-> "granted"])
    /\ banner' = [banner EXCEPT !.isVisible = FALSE, !.last = "accept"]

\* A plausible slip: Reject All stores the preferences of the checkboxes.
handleRejectAll_storesCustom ==
    /\ banner.mounted /\ banner.isVisible
    /\ ConsentUpdated([ad_storage |-> "denied", analytics_storage |-> "denied",
                       ad_user_data |-> "denied",
                       ad_personalization |-> "denied"])
    /\ storage' = stringify(banner.customConsent)
    /\ banner' = [banner EXCEPT !.isVisible = FALSE, !.last = "reject"]

\* handleRejectAll: rejectAllTracking() of the hook, then the literal is stored
handleRejectAll ==
    /\ banner.mounted /\ banner.isVisible
    /\ ConsentUpdated([ad_storage |-> "denied", analytics_storage |-> "denied",
                       ad_user_data |-> "denied",
                       ad_personalization |-> "denied"])
    /\ storage' = stringify([ad_storage |-> "denied",
                             analytics_storage |-> "denied",
                             ad_user_data |-> "denied",
                             ad_personalization |-> "denied"])
    /\ banner' = [banner EXCEPT !.isVisible = FALSE, !.last = "reject"]

\* handleSaveCustom; its button is rendered with the details only
handleSaveCustom ==
    /\ banner.mounted /\ banner.isVisible /\ banner.showDetails
    /\ ConsentUpdated(banner.customConsent)
    /\ storage' = stringify(banner.customConsent)
    /\ banner' = [banner EXCEPT !.isVisible = FALSE, !.last = "save"]

\* toggleConsent(key), of a checkbox of the details
toggleConsent(key) ==
    /\ banner.mounted /\ banner.isVisible /\ banner.showDetails
    /\ banner' = [banner EXCEPT
                    !.customConsent[key] =
                        IF @ = "granted" THEN "denied" ELSE "granted",
                    !.last = "toggle"]
    /\ UNCHANGED <<clientVarsOfService, serverVars, storage>>

\* the button Manage Preferences / Hide Details
ToggleDetails ==
    /\ banner.mounted /\ banner.isVisible
    /\ banner' = [banner EXCEPT !.showDetails = ~@, !.last = "details"]
    /\ UNCHANGED <<clientVarsOfService, serverVars, storage>>

\* A plausible slip: trackEvent without its test of this.initialized.
NotReady_untested(svc, init, cfg) == FALSE

\* if (!this.initialized) return;  the simplified service and the client
\* service also test !this.config?.serverEndpoint
NotReady(svc, init, cfg) ==
    ~init \/ (svc # "pixel" /\ ~Truthy(cfg.serverEndpoint))

\* trackEvent(event) up to its first await: the test of initialized, the
\* generated id, the pixel events, and the fetch to the server.  time is
\* what Date.now() returns, never less than at an earlier call.
trackEvent(ev, time, random) ==
    /\ cpc \notin {"fetch", "json"} /\ tracked < MaxTracks
    /\ \A i \in 1..Len(ids) : ids[i].time <= time
    /\ tracked' = tracked + 1
    /\ serverAnswer' = "none"
    /\ IF NotReady(service, initialized, config)
       THEN /\ console' = IF service = "simple"
                          THEN "TrackingService not properly initialized"
                          ELSE IF ~initialized
                          THEN "TrackingService not initialized. Call initialize() first."
                          ELSE "No server endpoint configured"
            /\ cpc' = "done"
            /\ outcome' = "fulfilled"
            /\ cevent' = Undefined
            /\ pixelEvent' = [d \in Dest |-> Undefined]
            /\ posted' = Undefined
            /\ UNCHANGED <<ids, pixelCalls, posts>>
       ELSE LET eventWithId == [ev EXCEPT !.event_id = generateEventId(time, random)]
                fires == [d \in Dest |-> FiresPixel(service, d, config, consentState)]
            IN /\ ids' = Append(ids, eventWithId.event_id)
               /\ cevent' = eventWithId
               /\ pixelEvent' = [d \in Dest |->
                                   IF fires[d] THEN sendPixelEvent(d, eventWithId)
                                   ELSE Undefined]
               /\ pixelCalls' = [d \in Dest |->
                                   pixelCalls[d] + IF fires[d] THEN 1 ELSE 0]
               /\ IF Truthy(config.serverEndpoint)
                  THEN /\ posted' = ServerPayload(service, eventWithId, consentState)
                       /\ posts' = posts + 1
                       /\ cpc' = "fetch"
                       /\ outcome' = "pending"
                  ELSE /\ posted' = Undefined
                       /\ cpc' = "done"
                       /\ outcome' = "fulfilled"
                       /\ UNCHANGED posts
               /\ UNCHANGED console
    /\ UNCHANGED <<service, config, initialized, consentState, given, pixelInits,
                   userData, pixelUser, resets,
                   banner, storage>>
    /\ UNCHANGED serverVars

\* catch (error) { console.error('Server tracking error:', error); }
OnServerError == [outcome |-> "fulfilled", console |-> "Server tracking error"]

\* After the answer the service reads this.config.debug, which throws inside
\* the try when reset() has set config to null in the meantime.
Answered_ok ==
    IF config = NoConfig THEN OnServerError
    ELSE [outcome |-> "fulfilled", console |-> console]

ClientSettle(result) ==
    /\ cpc' = "done"
    /\ outcome' = result.outcome
    /\ console' = result.console

ClientFrame(answer) ==
    /\ serverAnswer' = answer
    /\ UNCHANGED <<service, config, initialized, consentState, given, pixelInits,
                   ids, tracked, cevent, pixelEvent, pixelCalls, posted,
                   posts, userData, pixelUser, resets,
                   banner, storage>>
    /\ UNCHANGED serverVars

\* fetch to the server rejects
ServerUnreachable ==
    /\ cpc = "fetch"
    /\ ClientSettle(OnServerError)
    /\ ClientFrame("rejected")

\* fetch resolves with response.ok or not.  tracking-service.ts and the
\* client service throw on a response that is not ok; the simplified
\* service and the client service go on to read response.json().
ServerAnswers(isOk) ==
    /\ cpc = "fetch"
    /\ IF service # "simple" /\ ~isOk THEN ClientSettle(OnServerError)
       ELSE IF service = "pixel"
       THEN ClientSettle(Answered_ok)
       ELSE cpc' = "json" /\ UNCHANGED <<outcome, console>>
    /\ ClientFrame(IF isOk THEN "ok" ELSE "not ok")

\* response.json() of the server's answer settles
ServerBodySettles(parses) ==
    /\ cpc = "json"
    /\ IF parses THEN ClientSettle(Answered_ok)
       ELSE ClientSettle(OnServerError)
    /\ ClientFrame(serverAnswer)

-----------------------------------------------------------------------------
(* Specification: every server, every credential configuration, a small   *)
(* set of requests, every provider answer, every completion order.        *)

Credentials ==
    {[id |-> "ID", secret |-> "SECRET"], [id |-> undef, secret |-> "SECRET"],
     [id |-> "ID", secret |-> undef], [id |-> undef, secret |-> undef]}

Envs == [Dest -> Credentials]

\* process.env with every credential set
CompleteEnv == [d \in Dest |-> [id |-> "ID", secret |-> "SECRET"]]

Item1 == Item("P1", "Widget", undef, 10, 2)

AddToCart == Event("add_to_cart", "e1", "PHP", 20, Arr(<<Item1>>), undef)
BeginCheckout == Event("begin_checkout", "e1", "PHP", 20, Arr(<<Item1>>), undef)
Purchase == Event("purchase", "e1", "PHP", 20, Arr(<<Item1>>), "TXN-123")
PageView == Event("page_view", "e1", "PHP", 0, Undefined, undef)
StringItems == Event("add_to_cart", "e1", "PHP", 20, Str(<<"P", "1">>), undef)

Users ==
    {User("c1", "u1", Str(<<" ", "A">>), Undefined, "6.6.6.6", undef)}

Consents ==
    {Undefined} \cup
    {Consent(a, b) : a \in {"granted", "denied"}, b \in {"granted", "denied"}}

TrackRequest(ev, u, c) ==
    Request("track", ev, Undefined, undef, u, c, undef, "10.0.0.5", "UA/1.0")

\* the requests sent to /api/track of server.js, server.cjs, server-simple.cjs
JsTrackRequests ==
    {TrackRequest(ev, u, c) :
        ev \in {AddToCart, PageView, StringItems}, u \in Users, c \in Consents}

CjsTrackRequests ==
    {TrackRequest(ev, u, c) :
        ev \in {AddToCart, Purchase, PageView}, u \in Users,
        c \in {Undefined, Consent("denied", "denied")}}

SimpleTrackRequests ==
    {TrackRequest(ev, u, c) :
        ev \in {AddToCart, PageView}, u \in Users,
        c \in {Undefined, Consent("denied", "denied")}}

RouteRequests ==
    {Request(route, Undefined, items, "ORD-1", u, Undefined, "203.0.113.7",
             "10.0.0.5", "UA/1.0") :
        route \in {"checkout", "purchase"},
        items \in {Undefined, Arr(<<Item1>>)},
        u \in Users}

\* The state after app.listen, with n requests still to come.
ServerStart(n) ==
    /\ variant \in Variants
    /\ env \in Envs
    /\ served = 0
    /\ offered = n
    /\ received = [d \in Dest |-> 0]
    /\ phase = "idle"
    /\ req = NoRequest
    /\ event = Undefined
    /\ user = Undefined
    /\ pc = [d \in Dest |-> "idle"]
    /\ calls = [d \in Dest |-> 0]
    /\ sent = [d \in Dest |-> Undefined]
    /\ resp = [d \in Dest |-> NoResponse]
    /\ bodyRead = [d \in Dest |-> FALSE]
    /\ promise = [d \in Dest |-> Pending]
    /\ aggregated = Undefined
    /\ response = NoHttpResponse

Start(n) == ServerStart(n) /\ ClientStart({"pixel"})

Init == Start(MaxRequests)

Next ==
    \/ \E r \in JsTrackRequests : TrackJs(r)
    \/ \E r \in CjsTrackRequests : TrackCjs(r)
    \/ \E r \in SimpleTrackRequests : TrackSimple(r)
    \/ \E r \in RouteRequests : Checkout(r)
    \/ \E r \in RouteRequests : PurchaseComplete(r)
    \/ \E d \in Dest : FetchRejects(d)
    \/ \E d \in Dest : FetchResolves(d)
    \/ \E d \in Dest : BodySettles(d)
    \/ RespondTrack
    \/ RespondRoute

Spec == Init /\ [][Next]_vars

-----------------------------------------------------------------------------
(* Specification: every server and every credential configuration, one     *)
(* request.                                                                *)

InitOneRequest == Start(1)

SpecOneRequest == InitOneRequest /\ [][Next]_vars

-----------------------------------------------------------------------------
(* Specification of the business routes of server.cjs: every credential    *)
(* configuration, one request with well-formed items and a user whose      *)
(* e-mail is a string or a number, every provider answer.                  *)

CheckoutUsers ==
    Users \cup {User("c1", "u1", Num, Undefined, "6.6.6.6", undef)}

CheckoutRequests ==
    {Request(route, Undefined, Arr(<<Item1>>), "ORD-1", u, Undefined,
             "203.0.113.7", "10.0.0.5", "UA/1.0") :
        route \in {"checkout", "purchase"}, u \in CheckoutUsers}

InitCheckout == Start(1) /\ variant = "cjs"

NextCheckout ==
    \/ \E r \in CheckoutRequests : Checkout(r)
    \/ \E r \in CheckoutRequests : PurchaseComplete(r)
    \/ \E d \in Dest : FetchRejects(d)
    \/ \E d \in Dest : FetchResolves(d)
    \/ \E d \in Dest : BodySettles(d)
    \/ RespondRoute

\* Express runs the continuation of an await whose promise has settled.
SpecCheckout ==
    InitCheckout /\ [][NextCheckout]_vars /\ WF_vars(RespondRoute)

-----------------------------------------------------------------------------
(* Specification of the health check: every server, every credential       *)
(* configuration, one request, which is GET /health or a POST to           *)
(* /api/track, up to the point where the adapters have been called.        *)

HealthRequests ==
    {Request("health", Undefined, Undefined, undef, Undefined, Undefined,
             undef, "10.0.0.5", "UA/1.0")}

InitHealth == Start(1)

NextHealth ==
    \/ \E r \in HealthRequests : Health(r)
    \/ \E r \in JsTrackRequests : TrackJs(r)
    \/ \E r \in CjsTrackRequests : TrackCjs(r)
    \/ \E r \in SimpleTrackRequests : TrackSimple(r)

SpecHealth == InitHealth /\ [][NextHealth]_vars

-----------------------------------------------------------------------------
(* Specification of the consent gate: every server, every credential       *)
(* configuration, one add_to_cart request to /api/track whose consent is   *)
(* absent or holds, for each purpose, 'granted', 'denied', another string  *)
(* or nothing; the handlers and the answer to a dispatch whose promises    *)
(* are all settled at once.                                                *)

ConsentValues == {"granted", "denied", "GRANTED", undef}

GateConsents ==
    {Undefined} \cup {Consent(a, b) : a \in ConsentValues, b \in ConsentValues}

GateRequests == {TrackRequest(AddToCart, u, c) : u \in Users, c \in GateConsents}

InitGate == Start(1)

NextGate ==
    \/ \E r \in GateRequests : TrackJs(r)
    \/ \E r \in GateRequests : TrackCjs(r)
    \/ \E r \in GateRequests : TrackSimple(r)
    \/ RespondTrack

SpecGate == InitGate /\ [][NextGate]_vars

-----------------------------------------------------------------------------
(* Specification of payload construction: complete credentials, users     *)
(* with every raw e-mail up to MaxLen characters, and the handlers up to  *)
(* the point where the adapters have issued their POSTs.                  *)

PIIChars == {"A", "a", " "}

RawStrings == UNION {[1..k -> PIIChars] : k \in 0..MaxLen}

RawPII == {Undefined} \cup {Str(s) : s \in RawStrings}

PayloadUsers ==
    {User("c1", "u1", email, phone, "6.6.6.6", undef) :
        email \in RawPII, phone \in RawPII}

\* a caller that fills in user.user_agent itself
SpoofedUser == User("c1", "u1", Str(<<"A">>), Undefined, "6.6.6.6", "Spoofed/9")

ViewItem == Event("view_item", "e2", "PHP", 20, Arr(<<Item1>>), undef)
PageViewItems == Event("page_view", "e1", "PHP", 0, Arr(<<>>), undef)
AddToCartTxn == Event("add_to_cart", "e2", "PHP", 20, Arr(<<Item1>>), "TXN-123")

PayloadEvents ==
    {AddToCart, BeginCheckout, Purchase, PageView, StringItems, ViewItem,
     PageViewItems, AddToCartTxn}

\* every user with one event, and every event with two users
PayloadTrackRequests ==
    {TrackRequest(AddToCart, u, Consent("granted", "granted")) :
        u \in PayloadUsers} \cup
    {TrackRequest(ev, u, c) :
        ev \in PayloadEvents,
        u \in {SpoofedUser, User("c1", "u1", Undefined, Undefined, undef, undef)},
        c \in {Undefined, Consent("granted", "granted")}}

PayloadRouteRequests ==
    {Request(route, Undefined, Arr(<<Item1>>), "ORD-1", u, Undefined,
             "203.0.113.7", "10.0.0.5", "UA/1.0") :
        route \in {"checkout", "purchase"}, u \in PayloadUsers \cup {SpoofedUser}}

InitPayload == Start(1) /\ \A d \in Dest : HasCredentials(env, d)

NextPayload ==
    \/ \E r \in PayloadTrackRequests : TrackJs(r)
    \/ \E r \in PayloadTrackRequests : TrackCjs(r)
    \/ \E r \in PayloadTrackRequests : TrackSimple(r)
    \/ \E r \in PayloadRouteRequests : Checkout(r)
    \/ \E r \in PayloadRouteRequests : PurchaseComplete(r)

SpecPayload == InitPayload /\ [][NextPayload]_vars

-----------------------------------------------------------------------------
(* Properties *)

Dispatched == phase \in {"dispatching", "done"} /\ event # Undefined
DispatchReturned == phase = "done" /\ event # Undefined

IsEntry(x) ==
    /\ DOMAIN x = {"success", "error", "reason", "events_received", "result"}
    /\ x.success \in BOOLEAN

\* C1: when a request reached the dispatch step and the step returned, the
\* aggregated result has exactly one entry for each of ga4, meta and tiktok
\* (and nothing else but the event_id of server.cjs and server-simple.cjs),
\* whether the adapter returned, was skipped for consent or rejected.
C1_OneEntryPerDestination ==
    DispatchReturned =>
        /\ Dest \subseteq DOMAIN aggregated
        /\ DOMAIN aggregated \ {"event_id"} = Dest
        /\ \A d \in Dest : IsEntry(aggregated[d])
        /\ req.route = "track" => response.body = aggregated

C1_Witness ==
    /\ DispatchReturned
    /\ \E d \in Dest : promise[d].state = "rejected"
    /\ \E d \in Dest : pc[d] = "skipped"
    /\ Dest \subseteq DOMAIN aggregated

\* What adapter d produces on its own for the event and user of the current
\* dispatch and the answer its own provider gave.
Alone(d) ==
    LET s == IF variant = "js"
             THEN Gated(d, variant, env, event, user, req.consent)
             ELSE send(d, variant, env, event, user)
    IN IF s.pc # "fetch"
       THEN IF s.promise.state = "fulfilled" THEN s.promise.value
            ELSE Failure(s.promise.reason)
       ELSE IF resp[d].failed THEN Caught("fetch failed")
       ELSE Result(d, variant, resp[d].status, resp[d].body)

\* The success signal of each provider: 204 from GA4, a 2xx with a JSON
\* object from Meta, a 2xx with a JSON object whose code is 0 from TikTok.
SuccessSignal(d) ==
    /\ calls[d] = 1 /\ ~resp[d].failed
    /\ CASE d = "ga4" -> resp[d].status = 204
         [] d = "meta" -> ok(resp[d].status) /\ resp[d].body.t = "object"
         [] d = "tiktok" -> /\ ok(resp[d].status)
                            /\ resp[d].body.t = "object"
                            /\ resp[d].body.code = "0"

C3_ConsentGate ==
    (Dispatched /\ variant = "js") =>
        \A d \in Dest :
            ~Eligible(d, req.consent) =>
                /\ calls[d] = 0
                /\ sent[d] = Undefined
                /\ pc[d] = "skipped"
                /\ promise[d] = Fulfilled(NoConsent(d))
                /\ phase = "done" =>
                     /\ ~aggregated[d].success
                     /\ aggregated[d].reason =
                          (IF d = "ga4" THEN "No analytics consent"
                           ELSE "No ad consent")

C3_Witness ==
    /\ DispatchReturned /\ variant = "js"
    /\ ~Eligible("ga4", req.consent) /\ Eligible("meta", req.consent)
    /\ calls["ga4"] = 0 /\ calls["meta"] = 1
    /\ aggregated["ga4"].reason = "No analytics consent"

\* the adapter of d was called in the current dispatch
Invoked(d) == Dispatched /\ pc[d] # "skipped"

\* C4: an adapter called with either of its two credentials missing returns
\* success:false with the missing-credentials error and issues no network
\* call; with the credentials of all three destinations missing the result
\* has three success:false entries and no HTTP call was made.
C4_MissingCredentials ==
    /\ \A d \in Dest :
         (Invoked(d) /\ ~(Truthy(env[d].id) /\ Truthy(env[d].secret))) =>
            /\ calls[d] = 0
            /\ sent[d] = Undefined
            /\ promise[d].state = "fulfilled"
            /\ ~promise[d].value.success
            /\ promise[d].value.error \in
                 {"Missing GA4 credentials", "Missing Meta credentials",
                  "Missing TikTok credentials"}
    /\ (DispatchReturned /\ \A d \in Dest : ~(Truthy(env[d].id) /\ Truthy(env[d].secret))) =>
            /\ \A d \in Dest : ~aggregated[d].success
            /\ \A d \in Dest : calls[d] = 0

C4_Witness ==
    /\ DispatchReturned
    /\ \A d \in Dest : Invoked(d)
    /\ Truthy(env["ga4"].id) /\ ~Truthy(env["ga4"].secret)
    /\ ~Truthy(env["meta"].id) /\ Truthy(env["meta"].secret)
    /\ ~Truthy(env["tiktok"].id) /\ ~Truthy(env["tiktok"].secret)
    /\ \A d \in Dest : aggregated[d].error # undef /\ calls[d] = 0

\* C5 (as claimed): no call of an adapter ends in a rejected promise.
C5_NoRejection ==
    \A d \in Dest : promise[d].state # "rejected"

\* the PII-typed values of the body an adapter sent
PIIFields(d) ==
    CASE d = "ga4" -> {}
      [] d = "meta" -> {sent[d].data[1].user_data.em, sent[d].data[1].user_data.ph}
      [] d = "tiktok" -> IF sent[d].context.user = Undefined THEN {}
                         ELSE {sent[d].context.user.email,
                               sent[d].context.user.phone_number}

\* the SHA-256 digest of the normalised value, nothing for an absent one
Digest(raw) ==
    IF raw = Undefined \/ raw = Str(<<>>) THEN Undefined
    ELSE sha256(trim(toLowerCase(raw.s)))

\* C6: the body an adapter sends never holds the raw e-mail or phone: each
\* is absent or is the digest hashPII gives for it.
C6_NoRawPII ==
    \A d \in Dest :
        sent[d] # Undefined =>
            /\ \A x \in PIIFields(d) : x = Undefined \/ x.t = "sha256"
            /\ TruthyPII(user.email) => user.email \notin PIIFields(d)
            /\ TruthyPII(user.phone) => user.phone \notin PIIFields(d)
            /\ d = "meta" =>
                 /\ sent[d].data[1].user_data.em = Digest(user.email)
                 /\ sent[d].data[1].user_data.ph = Digest(user.phone)
            /\ (d = "tiktok" /\ sent[d].context.user # Undefined) =>
                 /\ sent[d].context.user.email = Digest(user.email)
                 /\ sent[d].context.user.phone_number = Digest(user.phone)

C6_Witness ==
    /\ sent["meta"] # Undefined /\ sent["tiktok"] # Undefined
    /\ user.email = Str(<<" ", "A">>)
    /\ sent["meta"].data[1].user_data.em = sha256(<<"a">>)
    /\ sent["tiktok"].context.user.email = sha256(<<"a">>)

\* the adapter of d issued its POST and its promise has settled
Answered(d) == Dispatched /\ calls[d] = 1 /\ pc[d] = "done"

\* C7: sendToTikTok returns success:true exactly when the status is 2xx and
\* the code of the response body is 0.
C7_TikTokSuccess ==
    Answered("tiktok") =>
        /\ promise["tiktok"].state = "fulfilled"
        /\ promise["tiktok"].value.success <=>
             /\ ~resp["tiktok"].failed
             /\ resp["tiktok"].status \in 200..299
             /\ resp["tiktok"].body.t = "object"
             /\ resp["tiktok"].body.code = "0"

C7_Witness ==
    /\ Answered("tiktok")
    /\ resp["tiktok"].status = 200
    /\ resp["tiktok"].body.t = "object"
    /\ resp["tiktok"].body.code # "0"
    /\ ~promise["tiktok"].value.success

\* C8: sendToGA4 returns success:true exactly when the status is 204, and
\* then without reading the body; every other status gives success:false
\* with an error.
C8_GA4Status ==
    (Answered("ga4") /\ ~resp["ga4"].failed) =>
        /\ promise["ga4"].state = "fulfilled"
        /\ promise["ga4"].value.success <=> resp["ga4"].status = 204
        /\ resp["ga4"].status = 204 => ~bodyRead["ga4"]
        /\ resp["ga4"].status # 204 => promise["ga4"].value.error # undef

C8_Witness ==
    /\ Answered("ga4")
    /\ resp["ga4"].status = 200
    /\ ~promise["ga4"].value.success

\* C9 (as claimed): sendToMeta returns success:true exactly when the status
\* is 2xx and the body parses as JSON, whatever the body contains.
C9_MetaSuccess ==
    Answered("meta") =>
        /\ promise["meta"].state = "fulfilled"
        /\ promise["meta"].value.success <=>
             /\ ~resp["meta"].failed
             /\ resp["meta"].status \in 200..299
             /\ resp["meta"].body.t # "text"

\* C10 (as claimed): in every entry of a dispatch result the error field is
\* present exactly when success is false.
C10_ErrorIffFailure ==
    DispatchReturned =>
        \A d \in Dest : (aggregated[d].error # undef) <=> ~aggregated[d].success

-----------------------------------------------------------------------------
(* Specification of repeated dispatches: the same add_to_cart event is     *)
(* posted to /api/track again and again, and /api/checkout is called again *)
(* and again, with the identifier of every destination set or not.         *)

RepeatEnvs == {e \in Envs : \A d \in Dest : e[d].secret = "SECRET"}

RepeatTrackRequests ==
    {TrackRequest(AddToCart, u, Consent("granted", "granted")) : u \in Users}

RepeatRouteRequests ==
    {Request("checkout", Undefined, Arr(<<Item1>>), "ORD-1", u, Undefined,
             "203.0.113.7", "10.0.0.5", "UA/1.0") : u \in Users}

InitRepeat == Start(MaxRepeat) /\ env \in RepeatEnvs

NextRepeat ==
    \/ \E r \in RepeatTrackRequests : TrackJs(r)
    \/ \E r \in RepeatTrackRequests : TrackCjs(r)
    \/ \E r \in RepeatTrackRequests : TrackSimple(r)
    \/ \E r \in RepeatRouteRequests : Checkout(r)
    \/ \E d \in Dest : FetchRejects(d)
    \/ \E d \in Dest : FetchResolves(d)
    \/ \E d \in Dest : BodySettles(d)
    \/ RespondTrack
    \/ RespondRoute

SpecRepeat == InitRepeat /\ [][NextRepeat]_vars

-----------------------------------------------------------------------------
(* Specification with scheduling: one request, the identifier of every     *)
(* destination set or not.  Once Promise.allSettled has resolved, the      *)
(* event loop runs the continuation of the awaiting handler, so the two    *)
(* responding steps are weakly fair.  Nothing makes a provider answer, so  *)
(* the adapter steps are not.                                              *)

InitLive == Start(1) /\ env \in RepeatEnvs

SpecLive ==
    InitLive /\ [][Next]_vars /\ WF_vars(RespondTrack) /\ WF_vars(RespondRoute)

-----------------------------------------------------------------------------
(* Specification of the browser: each of the three services, a few         *)
(* configurations, consent updates of the two keys trackEvent reads, up to *)
(* MaxTracks calls of trackEvent with every answer of the server.          *)

ClientConfigs ==
    {Config("G-1", "PX-1", "TT-1", "/api/track"),
     Config("G-1", "PX-1", "TT-1", undef),
     Config("G-1", undef, undef, "/api/track")}

\* Omit<TrackingEvent, 'event_id'>: what trackPurchase passes to trackEvent
ClientEvents == {[Purchase EXCEPT !.event_id = undef]}

\* Partial<ConsentState> over the given keys
Partials(keys) == UNION {[K -> {"granted", "denied"}] : K \in SUBSET keys}

\* values of Date.now() and of Math.random().toString(36).substring(2, 9)
Times == {1000, 1001}
Randoms == {"k3j9x1a", "0f5zq2m"}

\* the complete updates of the two keys trackEvent reads
TwoKeyConsents ==
    {c \in Partials({"ad_storage", "analytics_storage"}) :
        DOMAIN c = {"ad_storage", "analytics_storage"}}

InitClient ==
    /\ ServerStart(0) /\ variant = "cjs" /\ env = CompleteEnv
    /\ ClientStart(Services)

NextClient ==
    \/ \E cfg \in ClientConfigs : initialize(cfg)
    \/ \E c \in TwoKeyConsents : updateConsent(c)
    \/ \E ev \in ClientEvents, time \in Times, random \in Randoms :
          trackEvent(ev, time, random)
    \/ ServerUnreachable
    \/ \E isOk \in BOOLEAN : ServerAnswers(isOk)
    \/ \E parses \in BOOLEAN : ServerBodySettles(parses)

SpecClient == InitClient /\ [][NextClient]_vars

\* Specification of the consent state: every partial update of the four
\* keys, on the two services that keep a consent state.
InitConsent ==
    /\ ServerStart(0) /\ variant = "cjs" /\ env = CompleteEnv
    /\ ClientStart({"pixel", "client"})

NextConsent ==
    \/ \E cfg \in ClientConfigs : initialize(cfg)
    \/ \E c \in Partials(ConsentKeys) : updateConsent(c)

SpecConsent == InitConsent /\ [][NextConsent]_vars

\* Specification of reset: the two services that have the method, with
\* configurations, consent updates, user data and calls of trackEvent before
\* and after up to MaxResets calls of reset.
UserDatas == {[client_id |-> undef, email |-> "a@b.c", user_id |-> "u1"]}

ResetConsents == {[k \in ConsentKeys |-> "granted"]}

InitReset ==
    /\ ServerStart(0) /\ variant = "cjs" /\ env = CompleteEnv
    /\ ClientStart({"pixel", "client"})

NextReset ==
    \/ \E cfg \in ClientConfigs : initialize(cfg)
    \/ \E c \in ResetConsents : updateConsent(c)
    \/ \E ud \in UserDatas : setUserData(ud)
    \/ \E ev \in ClientEvents : trackEvent(ev, 1000, "k3j9x1a")
    \/ ServerUnreachable
    \/ \E isOk \in BOOLEAN : ServerAnswers(isOk)
    \/ \E parses \in BOOLEAN : ServerBodySettles(parses)
    \/ reset

SpecReset == InitReset /\ [][NextReset]_vars

\* Specification of the consent banner: mounts and unmounts, its buttons and
\* checkboxes, with the stored consent cleared at any time.
InitBanner ==
    /\ ServerStart(0) /\ variant = "cjs" /\ env = CompleteEnv
    /\ ClientStart({"pixel", "client"})

NextBanner ==
    \/ Mount
    \/ Unmount
    \/ ClearStorage
    \/ handleAcceptAll
    \/ handleRejectAll
    \/ handleSaveCustom
    \/ \E key \in ConsentKeys : toggleConsent(key)
    \/ ToggleDetails

SpecBanner == InitBanner /\ [][NextBanner]_vars

-----------------------------------------------------------------------------
(* Payload contents: event names, identifiers, transport data *)

SupportedNames == {"add_to_cart", "begin_checkout", "purchase"}

\* the adapter of d built a payload and issued its POST
Built(d) == Dispatched /\ sent[d] # Undefined

\* the event name the payload of d carries
NameIn(d) ==
    CASE d = "ga4" -> sent[d].events[1].name
      [] d = "meta" -> sent[d].data[1].event_name
      [] d = "tiktok" -> sent[d].event

\* C11: for add_to_cart, begin_checkout and purchase the payload sent to each
\* destination carries the name the fixed table gives for that destination.
C11_EventNameTable ==
    \A d \in Dest :
        (Built(d) /\ event.event_name \in SupportedNames) =>
            NameIn(d) = EVENT_NAME_MAPPING(event.event_name)[d]

C11_Witness ==
    /\ \A d \in Dest : Built(d)
    /\ event.event_name = "begin_checkout"
    /\ NameIn("ga4") = "begin_checkout"
    /\ NameIn("meta") = "InitiateCheckout"
    /\ NameIn("tiktok") = "InitiateCheckout"

\* C12 (as claimed): an event with a name outside the three supported ones
\* is an error of payload building, so no destination is sent a payload for it.
C12_UnknownNameIsError ==
    \A d \in Dest : Built(d) => event.event_name \in SupportedNames

\* the event-level identifier the payload of d carries
EventIdIn(d) ==
    CASE d = "ga4" -> sent[d].events[1].params.event_id
      [] d = "meta" -> sent[d].data[1].event_id
      [] d = "tiktok" -> sent[d].event_id

\* C13: every payload of one dispatch carries the event_id of the event that
\* is dispatched (for /api/track the one the caller sent), so the three
\* destinations receive the same identifier.
C13_SameEventId ==
    /\ \A d \in Dest : Built(d) => EventIdIn(d) = event.event_id
    /\ (Dispatched /\ req.route = "track") => event.event_id = req.event.event_id
    /\ \A d1, d2 \in Dest : (Built(d1) /\ Built(d2)) => EventIdIn(d1) = EventIdIn(d2)

C13_Witness ==
    /\ \A d \in Dest : Built(d) /\ EventIdIn(d) = "e2"
    /\ req.route = "purchase"

\* the transaction identifier the payload of d carries; the bodies built by
\* sendToMeta and sendToTikTok have no field for it
TransactionIdIn(d) ==
    CASE d = "ga4" -> sent[d].events[1].params.transaction_id
      [] d = "meta" -> undef
      [] d = "tiktok" -> undef

\* C14 (as claimed): the payloads of an add_to_cart or begin_checkout event
\* carry no transaction identifier, whatever the incoming event carries.
C14_TransactionIdOnlyForPurchase ==
    \A d \in Dest :
        (Built(d) /\ event.event_name \in {"add_to_cart", "begin_checkout"}) =>
            TransactionIdIn(d) = undef

-----------------------------------------------------------------------------
(* hashPII as applied by sendToMeta to user.email and user.phone *)

\* lower(trim(s)), the normal form of a raw PII string
Normalized(s) == toLowerCase(trim(s))

NonEmptyPII(value) == value # Undefined /\ Len(value.s) > 0

\* C15: hashPII gives undefined for undefined and for the empty string; for
\* a non-empty string it gives the digest of lower(trim(s)), so two strings
\* with the same normal form get the same digest.
C15_HashPII ==
    Built("meta") =>
        LET em == sent["meta"].data[1].user_data.em
            ph == sent["meta"].data[1].user_data.ph
        IN /\ ~NonEmptyPII(user.email) => em = Undefined
           /\ ~NonEmptyPII(user.phone) => ph = Undefined
           /\ NonEmptyPII(user.email) => em = sha256(Normalized(user.email.s))
           /\ NonEmptyPII(user.phone) => ph = sha256(Normalized(user.phone.s))
           /\ ( /\ NonEmptyPII(user.email) /\ NonEmptyPII(user.phone)
                /\ Normalized(user.email.s) = Normalized(user.phone.s) ) => em = ph

C15_Witness ==
    /\ Built("meta")
    /\ user.email = Str(<<" ", "A">>) /\ user.phone = Str(<<"a", " ">>)
    /\ sent["meta"].data[1].user_data.em = sha256(<<"a">>)
    /\ sent["meta"].data[1].user_data.ph = sha256(<<"a">>)

-----------------------------------------------------------------------------
(* Provider calls *)

\* C16: nothing kept between requests suppresses a call.  When the same
\* event has been dispatched served times, every destination with its
\* credentials set has received served POSTs (one in each dispatch), and a
\* destination without credentials none.
C16_NoLocalDedup ==
    \A d \in Dest :
        /\ received[d] = IF HasCredentials(env, d) THEN served ELSE 0
        /\ (Dispatched /\ HasCredentials(env, d)) => calls[d] = 1 /\ Built(d)

C16_Witness ==
    /\ served = 2 /\ phase = "done"
    /\ req.route = "track" /\ event.event_id = "e1"
    /\ \A d \in Dest : received[d] = 2 /\ calls[d] = 1

\* C17: in one dispatch every adapter issues at most one POST, at most three
\* in total, and no step of a running dispatch (in particular no failed
\* call) issues another one.
C17_AtMostOnePost ==
    /\ [](\A d \in Dest : calls[d] <= 1)
    /\ [](calls["ga4"] + calls["meta"] + calls["tiktok"] <= 3)
    /\ [][phase = "dispatching" => (calls' = calls /\ received' = received)]_vars

C17_Witness ==
    /\ phase = "done" /\ Dispatched
    /\ \A d \in Dest : calls[d] = 1
    /\ resp["ga4"].failed /\ ~aggregated["ga4"].success
    /\ ~resp["meta"].failed /\ resp["meta"].status = 400

\* every promise handed to the dispatch step is fulfilled or rejected
EverySettled == \A d \in Dest : promise[d].state \in {"fulfilled", "rejected"}

\* C18: a dispatch has returned only if all three promises have settled, the
\* step that returns is taken only when they have, and once they have the
\* dispatch does return.
C18_ReturnsWhenAllSettled ==
    /\ [](DispatchReturned => EverySettled)
    /\ [][(phase = "dispatching" /\ phase' = "done") => EverySettled]_vars
    /\ (phase = "dispatching" /\ EverySettled) ~> (phase = "done")

C18_Witness ==
    /\ DispatchReturned /\ EverySettled
    /\ promise["ga4"].state = "fulfilled" /\ promise["ga4"].value.success
    /\ promise["meta"].state = "rejected"
    /\ response.status = 200

-----------------------------------------------------------------------------
(* Transport data *)

\* the address and the user agent the payload of d carries (GA4 has neither)
IpIn(d) ==
    CASE d = "meta" -> sent[d].data[1].user_data.client_ip_address
      [] d = "tiktok" -> sent[d].context.ip

UserAgentIn(d) ==
    CASE d = "meta" -> sent[d].data[1].user_data.client_user_agent
      [] d = "tiktok" -> sent[d].context.user_agent

\* C19 (as claimed): on every route the address and the user agent a caller
\* put into user are replaced before the adapters run, so neither reaches a
\* payload.
C19_TransportOverrides ==
    \A d \in {"meta", "tiktok"} :
        Built(d) =>
            /\ Truthy(req.user.ip_address) => IpIn(d) # req.user.ip_address
            /\ Truthy(req.user.user_agent) => UserAgentIn(d) # req.user.user_agent

-----------------------------------------------------------------------------
(* The restricted /api/track of server.cjs *)

\* C20: /api/track of server.cjs answers an event other than page_view and
\* add_to_cart with status 400 and calls no adapter, so no provider receives
\* a POST; a begin_checkout or purchase event that is sent to a provider
\* comes from /api/checkout or /api/purchase/complete.
C20_TrackRestricted ==
    variant = "cjs" =>
        /\ ( /\ req.route = "track"
             /\ req.event.event_name \notin {"page_view", "add_to_cart"} ) =>
               /\ response.status = 400
               /\ phase = "done" /\ ~Dispatched
               /\ \A d \in Dest : /\ pc[d] = "idle" /\ calls[d] = 0
                                   /\ sent[d] = Undefined /\ received[d] = 0
        /\ \A d \in Dest :
              Built(d) =>
                /\ event.event_name = "begin_checkout" => req.route = "checkout"
                /\ event.event_name = "purchase" => req.route = "purchase"

C20_Witness ==
    /\ variant = "cjs" /\ req.route = "track"
    /\ req.event.event_name = "purchase"
    /\ response.status = 400
    /\ \A d \in Dest : calls[d] = 0

-----------------------------------------------------------------------------
(* Malformed events, missing credentials, waiting for the providers *)

\* C21 (as claimed): /api/track answers an event with an unsupported name or
\* without items with an error before the dispatch step: no adapter is
\* called, no POST is issued, and the caller has its answer.
C21_MalformedRejected ==
    ( /\ req.route = "track"
      /\ \/ req.event.event_name \notin SupportedNames
         \/ req.event.items = Undefined ) =>
        /\ ~Dispatched
        /\ response.status >= 400
        /\ \A d \in Dest : calls[d] = 0 /\ pc[d] = "idle"

\* C22: for every subset of destinations with missing credentials, an
\* adapter whose own credentials are complete does what it does when all
\* credentials are set: it issues its POST (for an event with an items array)
\* and its entry in the result is its own outcome.
C22_CredentialScope ==
    \A d \in Dest :
        (Invoked(d) /\ Truthy(env[d].id) /\ Truthy(env[d].secret)) =>
            /\ calls[d] = send(d, variant, CompleteEnv, event, user).calls
            /\ sent[d] = send(d, variant, CompleteEnv, event, user).sent
            /\ event.items.t = "array" => calls[d] = 1 /\ sent[d] # Undefined
            /\ phase = "done" =>
                 /\ aggregated[d] = Alone(d)
                 /\ calls[d] = 1 =>
                      aggregated[d].error \notin
                        {"Missing GA4 credentials", "Missing Meta credentials",
                         "Missing TikTok credentials"}
                 /\ SuccessSignal(d) => aggregated[d].success

C22_Witness ==
    /\ DispatchReturned /\ \A d \in Dest : Invoked(d)
    /\ ~Truthy(env["ga4"].id) /\ ~Truthy(env["tiktok"].secret)
    /\ Truthy(env["meta"].id) /\ Truthy(env["meta"].secret)
    /\ calls = [ga4 |-> 0, meta |-> 1, tiktok |-> 0]
    /\ aggregated["meta"].success
    /\ aggregated["ga4"].error = "Missing GA4 credentials"

\* C30 (as claimed): /api/checkout and /api/purchase/complete answer their
\* caller whether or not the provider calls have settled, so a request that
\* reached the dispatch step is answered even if a provider never answers.
C30_RoutesDoNotWait ==
    (phase = "dispatching" /\ req.route \in {"checkout", "purchase"})
        ~> (response.status # 0)

-----------------------------------------------------------------------------
(* The tracking service in the browser                                     *)

Granted(d, consent) ==
    IF d = "ga4" THEN consent["analytics_storage"] = "granted"
    ELSE consent["ad_storage"] = "granted"

Fired(d) == pixelCalls'[d] # pixelCalls[d]

\* C23: a trackEvent call fires the GA4 pixel event only when
\* analytics_storage is granted and the Meta and TikTok pixel events only
\* when ad_storage is granted, by the consent state at the time of the call;
\* with both denied the call fires no pixel event.
C23_PixelsRespectConsent ==
    [][/\ \A d \in Dest : Fired(d) => Granted(d, consentState)
       /\ (tracked' # tracked /\ \A d \in Dest : ~Granted(d, consentState))
            => pixelCalls' = pixelCalls /\ \A d \in Dest : pixelEvent'[d] = Undefined
      ]_vars

\* An initialized service with all three pixels configured has fired the GA4
\* event and neither the Meta nor the TikTok event in its last call.
C23_Witness ==
    /\ service = "pixel" /\ initialized /\ \A d \in Dest : Truthy(config[d])
    /\ cevent # Undefined
    /\ pixelEvent["ga4"] # Undefined
    /\ pixelEvent["meta"] = Undefined /\ pixelEvent["tiktok"] = Undefined
    /\ pixelCalls = [d \in Dest |-> IF d = "ga4" THEN 1 ELSE 0]

\* C24: trackEvent never rejects because of the server call: when fetch
\* rejects or the server answers with a status that is not ok, the error is
\* logged and the returned promise fulfils.
C24_ServerErrorLoggedNotThrown ==
    [][/\ outcome' # "rejected"
       /\ (cpc \in {"fetch", "json"} /\ cpc' = "done"
              /\ serverAnswer' \in {"rejected", "not ok"})
            => outcome' = "fulfilled" /\ console' = OnServerError.console
      ]_vars

\* C25: while the service is not initialized, because initialize was never
\* called or because it refused a config without serverEndpoint, trackEvent
\* sends nothing: no fetch, no pixel event, no generated id; and a service
\* that requires an endpoint is never initialized without one.
C25_UninitializedSendsNothing ==
    /\ ~initialized =>
         /\ posts = 0 /\ posted = Undefined
         /\ \A d \in Dest : pixelCalls[d] = 0 /\ pixelEvent[d] = Undefined
         /\ ids = <<>> /\ cevent = Undefined
         /\ cpc \in {"idle", "done"}
         /\ config = NoConfig
    /\ (initialized /\ service # "pixel") => Truthy(config.serverEndpoint)

\* Every allowed call of trackEvent has been made on a service that is still
\* not initialized.
C25_Witness ==
    /\ ~initialized /\ tracked = MaxTracks /\ cpc = "done"
    /\ console \in {"TrackingService not properly initialized",
                    "TrackingService not initialized. Call initialize() first."}

\* C26: initialize on an initialized service changes neither the config nor
\* the initialized flag and initializes no pixel; no pixel is ever
\* initialized twice.
C26_InitializeOnce ==
    [][/\ initialized =>
            config' = config /\ initialized' /\ pixelInits' = pixelInits
       /\ \A d \in Dest : pixelInits'[d] <= 1
      ]_vars

\* A second initialize has only warned.
C26_Witness ==
    /\ initialized /\ console = "TrackingService already initialized"
    /\ pixelInits = [d \in Dest |-> IF Truthy(config[d]) THEN 1 ELSE 0]
    /\ \E d \in Dest : ~Truthy(config[d])

\* C27: the event ids generated by the trackEvent calls are pairwise
\* different.
C27_EventIdsUnique ==
    \A i, j \in 1..Len(ids) : i # j => ids[i] # ids[j]

GtagEventId(call) == call.params.event_id

PixelEventIds(d) ==
    IF d = "meta"
    THEN {pixelEvent[d].params.event_id, pixelEvent[d].options.eventID}
    ELSE {GtagEventId(pixelEvent[d])}

\* C28: within one trackEvent call the generated event_id is the one passed
\* to every pixel that fires and the one in the payload posted to the server.
C28_OneIdPerCall ==
    cevent # Undefined =>
        /\ cevent.event_id = ids[Len(ids)]
        /\ \A d \in Dest : pixelEvent[d] # Undefined =>
               PixelEventIds(d) = {cevent.event_id}
        /\ posted # Undefined => posted.event.event_id = cevent.event_id

\* One call has fired all three pixels and posted to the server.
C28_Witness ==
    /\ \A d \in Dest : pixelEvent[d] # Undefined
    /\ posted # Undefined
    /\ Len(ids) = MaxTracks

-----------------------------------------------------------------------------
(* The business routes, the health check, the adapters of one dispatch     *)

RouteAnswer(route) ==
    [status |-> 200,
     body |-> IF route = "checkout"
              THEN [message |-> "Checkout session created"]
              ELSE [message |-> "Thank you for your purchase!"]]

RouteHandled == req.route \in {"checkout", "purchase"} /\ phase # "dispatching"

\* C31: whatever the adapters do in trackServerEvent (a failure result, a
\* network error, a thrown exception), /api/checkout and
\* /api/purchase/complete answer with their normal success response: a
\* handled request has that answer, and a request whose adapters have all
\* settled gets it.
C31_TrackingNeverBreaksCheckout ==
    /\ [](RouteHandled => response = RouteAnswer(req.route))
    /\ (req.route \in {"checkout", "purchase"} /\ EverySettled)
          ~> (response = RouteAnswer(req.route))

\* The route has answered although sendToMeta threw, the POST of sendToGA4
\* met a network error and sendToTikTok returned a failure.
C31_Witness ==
    /\ RouteHandled /\ response = RouteAnswer(req.route)
    /\ promise["meta"].state = "rejected"
    /\ resp["ga4"].failed /\ aggregated["ga4"] = Caught("fetch failed")
    /\ aggregated["tiktok"] = MissingCredentials("tiktok")

HealthAnswered == req.route = "health" /\ phase = "done"

ShortCircuits(d) == promise[d] = Fulfilled(MissingCredentials(d))

\* C32: GET /health reports for each destination a boolean that is true
\* exactly when both credentials of the destination are set, which is
\* exactly when the adapter of the destination, once invoked, does not return
\* the missing-credentials result; the answer holds the status and the three
\* booleans and nothing else.
C32_HealthReportsCredentials ==
    /\ HealthAnswered =>
          /\ response.status = 200
          /\ DOMAIN response.body = {"status", "credentials"}
          /\ response.body.status = "ok"
          /\ DOMAIN response.body.credentials = Dest
          /\ \A d \in Dest :
                /\ response.body.credentials[d] \in BOOLEAN
                /\ response.body.credentials[d]
                      <=> (Truthy(env[d].id) /\ Truthy(env[d].secret))
    /\ \A d \in Dest :
          (Dispatched /\ Invoked(d)) =>
              (HealthAnswer(env).body.credentials[d] <=> ~ShortCircuits(d))

\* The check has answered true for one destination and false for the two
\* others, one of which has one credential of its two.
C32_Witness ==
    /\ HealthAnswered
    /\ response.body.credentials["ga4"]
    /\ ~response.body.credentials["meta"] /\ Truthy(env["meta"].id)
    /\ ~response.body.credentials["tiktok"]

\* the user and the event that the handler passes to the adapters
IngressUser ==
    IF req.route = "track"
    THEN [req.user EXCEPT !.ip_address = realIp(req)]
    ELSE [req.user EXCEPT !.ip_address = realIp(req),
                          !.user_agent = Or(req.userAgent, "Unknown")]

IngressEvent ==
    IF req.route = "track" THEN req.event
    ELSE Event(IF req.route = "checkout" THEN "begin_checkout" ELSE "purchase",
               event.event_id, "PHP", reduceValue(req.items.a), req.items,
               IF req.route = "checkout" THEN undef ELSE req.orderId)

\* C33: from the call of the adapters to the answer, in every order of the
\* adapters' steps, the event and the user are the values the handler
\* passed, and what each invoked adapter has posted is built from these
\* values.
C33_AdaptersShareNothing ==
    Dispatched =>
        /\ event = IngressEvent /\ user = IngressUser
        /\ \A d \in Dest : Invoked(d) =>
              /\ sent[d] = send(d, variant, env, IngressEvent, IngressUser).sent
              /\ calls[d] = send(d, variant, env, IngressEvent, IngressUser).calls

\* All three adapters have posted and settled; the call of TikTok has
\* succeeded and that of GA4 has failed.
C33_Witness ==
    /\ phase = "done" /\ \A d \in Dest : sent[d] # Undefined
    /\ bodyRead["meta"] /\ bodyRead["tiktok"]
    /\ aggregated["tiktok"].success /\ ~aggregated["ga4"].success

\* what the call of adapter d in the current dispatch leaves at its first await
AtCall(d) ==
    IF variant = "js" THEN Gated(d, variant, env, event, user, req.consent)
    ELSE send(d, variant, env, event, user)

\* C34: while the handler awaits the dispatch, every adapter has been called
\* (or skipped) and every eligible adapter has issued its POST, whether or
\* not the providers of the others have answered; an adapter that has
\* settled has the outcome it produces on its own.
C34_CallsStartedTogether ==
    (phase = "dispatching" /\ event # Undefined) =>
        \A d \in Dest :
            /\ pc[d] # "idle"
            /\ calls[d] = AtCall(d).calls
            /\ (pc[d] \in {"fetch", "body"}) => calls[d] = 1 /\ sent[d] = AtCall(d).sent
            /\ promise[d].state = "fulfilled" => promise[d].value = Alone(d)
            /\ promise[d].state = "rejected" => promise[d] = AtCall(d).promise

\* The provider of GA4 has not answered; the calls of Meta and TikTok, started
\* after that of GA4, have completed with success.
C34_Witness ==
    /\ phase = "dispatching"
    /\ pc["ga4"] = "fetch" /\ calls["ga4"] = 1 /\ resp["ga4"] = NoResponse
    /\ pc["meta"] = "done" /\ promise["meta"].state = "fulfilled"
    /\ promise["meta"].value.success
    /\ pc["tiktok"] = "done" /\ promise["tiktok"].state = "fulfilled"
    /\ promise["tiktok"].value.success

-----------------------------------------------------------------------------
(* Consent at the server *)

\* the purpose of destination d holds the exact value 'granted'
ExactlyGranted(d, consent) ==
    /\ consent # Undefined
    /\ IF d = "ga4" THEN consent.analytics_storage = "granted"
       ELSE consent.ad_storage = "granted"

\* C35: in server.js an adapter is invoked exactly when the consent of the
\* request holds the exact value 'granted' for its purpose; for a request
\* without a consent object no adapter is invoked, no POST is issued and the
\* three entries of the answer are success:false.
C35_OnlyGrantedCounts ==
    (variant = "js" /\ Dispatched) =>
        /\ \A d \in Dest : Invoked(d) <=> ExactlyGranted(d, req.consent)
        /\ \A d \in Dest : ~ExactlyGranted(d, req.consent) => calls[d] = 0
        /\ req.consent = Undefined =>
              /\ \A d \in Dest : ~Invoked(d)
              /\ phase = "done" => \A d \in Dest : aggregated[d].success = FALSE

\* server.js has answered a request that carries no consent.
C35_Witness ==
    /\ variant = "js" /\ phase = "done" /\ req.consent = Undefined
    /\ \A d \in Dest : HasCredentials(env, d)
    /\ \A d \in Dest : aggregated[d] = NoConsent(d)

\* C36: in server.cjs and server-simple.cjs /api/track invokes all three
\* adapters whatever the consent of the request, denied or absent included,
\* and each adapter does what it does for a request with consent granted.
C36_ConsentIgnored ==
    (variant \in {"cjs", "simple"} /\ Dispatched /\ req.route = "track") =>
        \A d \in Dest :
            /\ Invoked(d)
            /\ calls[d] = send(d, variant, env, event, user).calls
            /\ sent[d] = send(d, variant, env, event, user).sent

\* server.cjs has issued the three POSTs for a request whose consent denies
\* both purposes.
C36_Witness ==
    /\ variant = "cjs" /\ Dispatched /\ req.route = "track"
    /\ req.consent = Consent("denied", "denied")
    /\ \A d \in Dest : calls[d] = 1

-----------------------------------------------------------------------------
(* reset *)

\* what initialize does with a configuration on a fresh service
Accepts(cfg) == service = "pixel" \/ Truthy(cfg.serverEndpoint)

\* C37: whatever initialize, updateConsent, setUserData and trackEvent did
\* before, a call of reset leaves no config, the service not initialized, the
\* four consents denied and the user data empty; and a call of initialize on
\* the service that was reset takes effect as on a fresh one: an acceptable
\* configuration is stored, its pixels are initialized and the service is
\* initialized; any other configuration is refused.
C37_ResetRestoresInitialState ==
    [][/\ resets' # resets =>
            /\ config' = NoConfig
            /\ ~initialized'
            /\ consentState' = DefaultConsent
            /\ userData' = NoUserData
       /\ \A cfg \in ClientConfigs :
            (resets > 0 /\ config = NoConfig /\ initialize(cfg)) =>
                /\ initialized' = Accepts(cfg)
                /\ config' = IF Accepts(cfg) THEN cfg ELSE NoConfig
                /\ \A d \in Dest :
                     pixelInits'[d] # pixelInits[d] <=>
                        Accepts(cfg) /\ Truthy(cfg[d])]_vars

\* reset was called on a service that was initialized, had consents granted,
\* user data and an event tracked, and the service was initialized again.
C37_Witness ==
    /\ resets = 1 /\ initialized /\ pixelInits["meta"] = 2
    /\ tracked > 0
    /\ \A k \in ConsentKeys : given[k] = "none"
    /\ consentState = DefaultConsent /\ userData = NoUserData

-----------------------------------------------------------------------------
(* The consent banner *)

\* the consent the tracking service was last given, key by key
GivenConsent == [k \in ConsentKeys |-> given[k]]

\* C38: after Accept All, Reject All or Save Preferences a consent is stored
\* under 'tracking_consent' that reads back as the consent the action passed
\* to the tracking service, and the banner is hidden; after a mount the
\* banner is shown exactly when nothing is stored, and a stored consent has
\* been passed to updateConsent as it reads back.
C38_BannerStoresWhatItPasses ==
    [][/\ (banner.isVisible /\ banner'.last \in {"accept", "reject", "save"}) =>
            /\ storage' # NoItem
            /\ parse(storage') = GivenConsent'
            /\ ~banner'.isVisible
       /\ (~banner.mounted /\ banner'.mounted) =>
            /\ banner'.isVisible <=> storage' = NoItem
            /\ storage' # NoItem =>
                  GivenConsent' = parse(storage') /\ storage' = storage]_vars

\* Preferences that grant some keys only were saved, and the banner was
\* mounted again on them.
C38_Witness ==
    /\ banner.last = "mount" /\ ~banner.isVisible
    /\ storage # NoItem
    /\ parse(storage)["analytics_storage"] = "granted"
    /\ parse(storage)["ad_storage"] = "denied"

-----------------------------------------------------------------------------
(* The three server files side by side *)

\* The success flag adapter d of server file v returns for the response the
\* state holds.  sendToGA4 of server.js reads the text of a body the other
\* two files leave unread; the flag does not depend on it.
SuccessIn(v, d) ==
    IF resp[d].failed THEN Caught("fetch failed").success
    ELSE IF d = "ga4"
    THEN GA4Result(v, resp[d].status,
                   IF resp[d].body = Undefined THEN TextBody("")
                   ELSE resp[d].body).success
    ELSE Result(d, v, resp[d].status, resp[d].body).success

\* translated event name, event_id, currency, value and contents of a payload
SentFields(d, payload) ==
    CASE d = "ga4" ->
            [name |-> payload.events[1].name,
             event_id |-> payload.events[1].params.event_id,
             currency |-> payload.events[1].params.currency,
             value |-> payload.events[1].params.value,
             contents |-> payload.events[1].params.items]
      [] d = "meta" ->
            [name |-> payload.data[1].event_name,
             event_id |-> payload.data[1].event_id,
             currency |-> payload.data[1].custom_data.currency,
             value |-> payload.data[1].custom_data.value,
             contents |-> payload.data[1].custom_data.contents]
      [] d = "tiktok" ->
            [name |-> payload.event,
             event_id |-> payload.event_id,
             currency |-> payload.properties.currency,
             value |-> payload.properties.value,
             contents |-> payload.properties.contents]

\* C39 (as claimed): for an event of a supported name with items, the adapter
\* that has settled on its provider's answer has the success flag, and has
\* sent the translated event name, event_id, currency, value and contents,
\* that the same adapter of each of the three server files gives for the same
\* event, user, credentials and answer.
C39_VariantsAgree ==
    \A d \in Dest :
        (Answered(d) /\ event.event_name \in SupportedNames) =>
            \A v \in Variants :
                /\ promise[d].state = "fulfilled"
                /\ promise[d].value.success = SuccessIn(v, d)
                /\ SentFields(d, sent[d]) =
                      SentFields(d, send(d, v, env, event, user).sent)

=============================================================================
